---------------------------- MODULE Spec2Model ----------------------------
(***************************************************************************)
(* Collaborative canvas: the server's DrawingStateManager (per-room        *)
(* snapshot history with an undo/redo cursor and the recent-operations     *)
(* log, src/server/drawing-state.js), its RoomManager                      *)
(* (src/server/rooms.js), the socket handlers of src/server/server.js and  *)
(* the browser client (src/client/canvas.js and the SocketManager of       *)
(* src/unnamed/part_000).                                                  *)
(*                                                                         *)
(* Specifications: SpecHist calls the DrawingStateManager directly, deep   *)
(* enough to reach the 20-snapshot cap; SpecClearSync and SpecUndoSync run *)
(* clients, the two message channels of every connection and the server's  *)
(* handlers, the first with the Clear button, the second with Undo/Redo.   *)
(* The further specifications (SpecOps, SpecCleanup, SpecRooms,            *)
(* SpecColors, SpecGrace, SpecServer, SpecMidStroke, SpecFull, SpecCross,  *)
(* SpecCursor, SpecSameId, SpecForge, SpecTwoUndos, SpecSweep) each drive  *)
(* one part of the program; every one is introduced where it is defined.   *)
(*                                                                         *)
(* JavaScript arrays are 0-based: history[i] of the source is              *)
(* history[i + 1] here, and historyIndex keeps the source's 0-based value  *)
(* (-1 = no snapshot).                                                     *)
(***************************************************************************)
EXTENDS Integers, Sequences, FiniteSets, TLC

\* ------------------------------------------------------------------------
\* Program constants
\* ------------------------------------------------------------------------
MAX_HISTORY == 20

MAX_OPERATIONS == 500

defaultRoomId == "global"

\* drawingStateManager.cleanup(24 * 60 * 60 * 1000), every 60 * 60 * 1000 ms
CLEANUP_MAX_AGE == 86400000

CLEANUP_INTERVAL == 3600000

\* setTimeout(..., 60000) of removeUserFromRoom
EMPTY_ROOM_DELAY == 60000

\* emitCursorMove: milliseconds during which further cursor updates are dropped.
CURSOR_THROTTLE == 50

\* ------------------------------------------------------------------------
\* Bounds of the model
\* ------------------------------------------------------------------------
\* saveSnapshot calls in one behaviour of SpecHist (more than MAX_HISTORY,
\* so that the cap evicts).
MaxSnap == 22

\* undo and redo calls in one behaviour of SpecHist.
MaxUndoRedo == 3

\* addOperation calls in one behaviour of SpecHist.
MaxOps == 1

\* SpecRooms: timers pending at once, and room objects created after the
\* default room's.
MaxTimers == 2

MaxRoomObjs == 3

\* SpecColors: users that join (more than the 16 colors), re-joins of a
\* member, and leaves.
MaxColorUsers == 17

MaxRejoins == 1

MaxLeaves == 1

\* SpecServer: join-room messages that name a room, and disconnects.
MaxJoinRooms == 2

MaxDisconnects == 1

\* SpecServer: messages sent after the join-room of the connect, over all
\* connections.
MaxRequests == 4

\* SpecFull: join-room messages with further user ids (with the two clients'
\* own joins, one more than DEFAULT_MAX_USERS members).
MaxFillJoins == 49

\* addOperation calls in one behaviour of SpecOps (more than
\* MAX_OPERATIONS, so that the cap evicts).
MaxLogOps == 503

\* SpecCleanup, SpecSweep: saveSnapshot calls, and the steps of HalfDay that
\* pass (more than CLEANUP_MAX_AGE).
MaxCleanupSnaps == 2

MaxHalfDays == 3

\* SpecGrace: the steps of GraceStep that pass (more than EMPTY_ROOM_DELAY).
MaxGraceSteps == 4

\* SpecTwoUndos: save-snapshot and undo-request messages, over all clients.
MaxUndoSnaps == 3

MaxPendingUndos == 2

\* SpecCursor: the steps of ThrottleStep that pass (more than
\* CURSOR_THROTTLE).
MaxThrottleSteps == 4

\* Rooms the DrawingStateManager is called with in SpecHist.
HistRooms == {defaultRoomId}

\* ------------------------------------------------------------------------
\* State
\* ------------------------------------------------------------------------
VARIABLES
    states,     \* DrawingStateManager.states: roomId -> room state
    now,        \* Date.now()
    nextOpId,   \* stands for the fresh value generateOperationId() returns
    result,     \* SpecHist: what the last DrawingStateManager call returned
    nSnap,      \* SpecHist: number of saveSnapshot calls so far
    nUndoRedo,  \* SpecHist: number of undo/redo calls so far
    roomCalls,  \* SpecColors: number of joins, re-joins and leaves so far
    rooms,          \* RoomManager.rooms: roomId -> room
    currentUser,    \* server, per connection: the closure variable currentUser
    currentRoomId,  \* server, per connection: the closure variable currentRoomId
    sockRooms,      \* server, per connection: the socket.io rooms the socket joined
    timers,         \* server: the pending setTimeout callbacks of removeUserFromRoom
    nextObj,        \* stands for the identity of the next room object created
    c2s,            \* per connection: messages sent by the client, not yet handled
    s2c,            \* per connection: messages sent by the server, not yet handled
    isConnected,    \* client: SocketManager.isConnected
    userColor,      \* client: SocketManager.userColor
    cursorThrottle, \* client: SocketManager.cursorThrottle
    throttleTimers, \* client: due times of the pending setTimeout callbacks of emitCursorMove
    cursorMoveTimes,\* history variable, per client: when it emitted its cursor-move messages
    canvas,         \* client: the pixels of the canvas, as the set of segments drawn
    loading,        \* client: images whose onload has not run yet
    isDrawing,      \* client: CanvasManager.isDrawing
    currentStrokeId,\* client: CanvasManager.currentStrokeId
    clicks,         \* sync: user gestures made so far, by kind
    nextSeg,        \* sync: the next segment (mouse move while drawing)
    settled,        \* history variable, per room: the last destructive request handled
    clearsHandled,  \* history variable, per room: clear-canvas requests handled
    clearsKnown     \* history variable, per client: clears the client issued or applied

dsmVars == <<states, now, nextOpId>>

callVars == <<result, nSnap, nUndoRedo, roomCalls>>

serverVars == <<rooms, currentUser, currentRoomId, sockRooms, timers, nextObj>>

connVars == <<currentUser, currentRoomId, sockRooms>>

netVars == <<c2s, s2c>>

cursorVars == <<cursorThrottle, throttleTimers, cursorMoveTimes>>

clientVars == <<isConnected, userColor, cursorVars, canvas, loading, isDrawing,
                currentStrokeId>>

gestureVars == <<clicks, nextSeg>>

historyVars == <<settled, clearsHandled, clearsKnown>>

syncVars == <<serverVars, netVars, clientVars, gestureVars, historyVars>>

vars == <<dsmVars, callVars, roomCalls, syncVars>>

\* A JavaScript null / undefined where a record is expected.
Null == [isNull |-> TRUE]

\* canvas.toDataURL(): the serialized image of a surface (a set of drawn
\* segments); the image decodes back to the pixels it was taken from.
toDataURL(surface) == [image |-> surface]

drawImage(dataURL) == dataURL.image

\* ------------------------------------------------------------------------
\* DrawingStateManager (src/server/drawing-state.js)
\* Each method is an operator from the states map (and the call's inputs)
\* to the states map after the call, together with the returned value.
\* ------------------------------------------------------------------------
initializeRoomState(S, roomId, t) ==
    IF roomId \in DOMAIN S
    THEN S
    ELSE [r \in (DOMAIN S) \cup {roomId} |->
            IF r = roomId
            THEN [history |-> <<>>,
                  historyIndex |-> -1,
                  operations |-> <<>>,
                  metadata |-> [createdAt |-> t, lastModified |-> t]]
            ELSE S[r]]

getState(S, roomId, t) ==
    IF roomId \notin DOMAIN S THEN initializeRoomState(S, roomId, t) ELSE S

\* addOperation with the cap evicting at the wrong end (pop instead of shift).
addOperation_EvictsNewest(S, roomId, operation, opId, t) ==
    LET S1 == getState(S, roomId, t)
        st == S1[roomId]
        op == [seg |-> operation.seg,
               strokeId |-> operation.strokeId,
               userId |-> operation.userId,
               userName |-> operation.userName,
               operationId |-> opId,
               timestamp |-> t]
        pushed == Append(st.operations, op)
        ops == IF Len(pushed) > MAX_OPERATIONS
               THEN SubSeq(pushed, 1, Len(pushed) - 1)
               ELSE pushed
    IN  [states |-> [S1 EXCEPT ![roomId].operations = ops,
                               ![roomId].metadata.lastModified = t],
         ret |-> op]

addOperation(S, roomId, operation, opId, t) ==
    LET S1 == getState(S, roomId, t)
        st == S1[roomId]
        op == [seg |-> operation.seg,
               strokeId |-> operation.strokeId,
               userId |-> operation.userId,
               userName |-> operation.userName,
               operationId |-> opId,
               timestamp |-> t]
        pushed == Append(st.operations, op)
        ops == IF Len(pushed) > MAX_OPERATIONS THEN Tail(pushed) ELSE pushed
    IN  [states |-> [S1 EXCEPT ![roomId] =
                        [st EXCEPT !.operations = ops,
                                   !.metadata.lastModified = t]],
         ret |-> op]

\* Mutant: the clear forgets to reset historyIndex.
clearOperations_KeepsIndex(S, roomId, t) ==
    LET S1 == getState(S, roomId, t)
        st == S1[roomId]
    IN  [S1 EXCEPT ![roomId] =
            [st EXCEPT !.operations = <<>>,
                       !.history = <<>>,
                       !.metadata.lastModified = t]]

\* Mutant: the clear resets the cursor and the operations but keeps the
\* snapshots.
clearOperations_KeepsHistory(S, roomId, t) ==
    LET S1 == getState(S, roomId, t)
        st == S1[roomId]
    IN  [S1 EXCEPT ![roomId] =
            [st EXCEPT !.operations = <<>>,
                       !.historyIndex = -1,
                       !.metadata.lastModified = t]]

clearOperations(S, roomId, t) ==
    LET S1 == getState(S, roomId, t)
        st == S1[roomId]
    IN  [S1 EXCEPT ![roomId] =
            [st EXCEPT !.operations = <<>>,
                       !.history = <<>>,
                       !.historyIndex = -1,
                       !.metadata.lastModified = t]]

\* Mutant: the cap evicts the oldest snapshot without lowering the cursor.
saveSnapshot_NoCursorShift(S, roomId, canvasDataURL, t) ==
    LET S1 == getState(S, roomId, t)
        st == S1[roomId]
        kept == IF st.historyIndex < Len(st.history) - 1
                THEN SubSeq(st.history, 1, st.historyIndex + 1)
                ELSE st.history
        pushed == Append(kept, [dataURL |-> canvasDataURL, timestamp |-> t])
        index == Len(pushed) - 1
        over == Len(pushed) > MAX_HISTORY
    IN  [S1 EXCEPT ![roomId] =
            [st EXCEPT !.history = IF over THEN Tail(pushed) ELSE pushed,
                       !.historyIndex = index]]

\* Mutant: the push never discards the snapshots after the cursor.
saveSnapshot_NoTruncate(S, roomId, canvasDataURL, t) ==
    LET S1 == getState(S, roomId, t)
        st == S1[roomId]
        pushed == Append(st.history, [dataURL |-> canvasDataURL, timestamp |-> t])
        index == Len(pushed) - 1
        over == Len(pushed) > MAX_HISTORY
    IN  [S1 EXCEPT ![roomId] =
            [st EXCEPT !.history = IF over THEN Tail(pushed) ELSE pushed,
                       !.historyIndex = IF over THEN index - 1 ELSE index]]

\* Mutant: the push of a snapshot also empties the operation log.
saveSnapshot_EmptiesLog(S, roomId, canvasDataURL, t) ==
    LET S1 == getState(S, roomId, t)
        st == S1[roomId]
        kept == IF st.historyIndex < Len(st.history) - 1
                THEN SubSeq(st.history, 1, st.historyIndex + 1)
                ELSE st.history
        pushed == Append(kept, [dataURL |-> canvasDataURL, timestamp |-> t])
        index == Len(pushed) - 1
        over == Len(pushed) > MAX_HISTORY
    IN  [S1 EXCEPT ![roomId] =
            [st EXCEPT !.history = IF over THEN Tail(pushed) ELSE pushed,
                       !.historyIndex = IF over THEN index - 1 ELSE index,
                       !.operations = <<>>]]

saveSnapshot(S, roomId, canvasDataURL, t) ==
    LET S1 == getState(S, roomId, t)
        st == S1[roomId]
        kept == IF st.historyIndex < Len(st.history) - 1
                THEN SubSeq(st.history, 1, st.historyIndex + 1)
                ELSE st.history
        pushed == Append(kept, [dataURL |-> canvasDataURL, timestamp |-> t])
        index == Len(pushed) - 1
        over == Len(pushed) > MAX_HISTORY
    IN  [S1 EXCEPT ![roomId] =
            [st EXCEPT !.history = IF over THEN Tail(pushed) ELSE pushed,
                       !.historyIndex = IF over THEN index - 1 ELSE index]]

\* Mutant: undo refuses one step too early (historyIndex <= 1).
undo_OffByOne(S, roomId, t) ==
    LET S1 == getState(S, roomId, t)
        st == S1[roomId]
    IN  IF st.historyIndex <= 1
        THEN [states |-> S1,
              ret |-> [success |-> FALSE, message |-> "Nothing to undo"]]
        ELSE [states |-> [S1 EXCEPT ![roomId].historyIndex = st.historyIndex - 1],
              ret |-> [success |-> TRUE,
                       canvasDataURL |-> st.history[(st.historyIndex - 1) + 1].dataURL,
                       index |-> st.historyIndex - 1]]

\* Mutant: undo reads the snapshot before it moves the cursor.
undo_ReturnsOld(S, roomId, t) ==
    LET S1 == getState(S, roomId, t)
        st == S1[roomId]
    IN  IF st.historyIndex <= 0
        THEN [states |-> S1,
              ret |-> [success |-> FALSE, message |-> "Nothing to undo"]]
        ELSE [states |-> [S1 EXCEPT ![roomId].historyIndex = st.historyIndex - 1],
              ret |-> [success |-> TRUE,
                       canvasDataURL |-> st.history[st.historyIndex + 1].dataURL,
                       index |-> st.historyIndex - 1]]

\* Mutant: undo returns the snapshot before the cursor without moving the
\* cursor.
undo_KeepsCursor(S, roomId, t) ==
    LET S1 == getState(S, roomId, t)
        st == S1[roomId]
    IN  IF st.historyIndex <= 0
        THEN [states |-> S1,
              ret |-> [success |-> FALSE, message |-> "Nothing to undo"]]
        ELSE [states |-> S1,
              ret |-> [success |-> TRUE,
                       canvasDataURL |-> st.history[(st.historyIndex - 1) + 1].dataURL,
                       index |-> st.historyIndex - 1]]

\* Mutant: undo also steps back from the first snapshot, to the blank state.
undo_BelowFirst(S, roomId, t) ==
    LET S1 == getState(S, roomId, t)
        st == S1[roomId]
    IN  IF st.historyIndex < 0
        THEN [states |-> S1,
              ret |-> [success |-> FALSE, message |-> "Nothing to undo"]]
        ELSE [states |-> [S1 EXCEPT ![roomId].historyIndex = st.historyIndex - 1],
              ret |-> [success |-> TRUE,
                       canvasDataURL |-> IF st.historyIndex - 1 >= 0
                                         THEN st.history[(st.historyIndex - 1) + 1].dataURL
                                         ELSE Null,
                       index |-> st.historyIndex - 1]]

undo(S, roomId, t) ==
    LET S1 == getState(S, roomId, t)
        st == S1[roomId]
    IN  IF st.historyIndex <= 0
        THEN [states |-> S1,
              ret |-> [success |-> FALSE, message |-> "Nothing to undo"]]
        ELSE [states |-> [S1 EXCEPT ![roomId].historyIndex = st.historyIndex - 1],
              ret |-> [success |-> TRUE,
                       canvasDataURL |-> st.history[(st.historyIndex - 1) + 1].dataURL,
                       index |-> st.historyIndex - 1]]

\* Mutant: redo refuses one step too early (historyIndex >= length - 2).
redo_OffByOne(S, roomId, t) ==
    LET S1 == getState(S, roomId, t)
        st == S1[roomId]
    IN  IF st.historyIndex >= Len(st.history) - 2
        THEN [states |-> S1,
              ret |-> [success |-> FALSE, message |-> "Nothing to redo"]]
        ELSE [states |-> [S1 EXCEPT ![roomId].historyIndex = st.historyIndex + 1],
              ret |-> [success |-> TRUE,
                       canvasDataURL |-> st.history[(st.historyIndex + 1) + 1].dataURL,
                       index |-> st.historyIndex + 1]]

\* Mutant: redo reads the snapshot before it moves the cursor.
redo_ReturnsOld(S, roomId, t) ==
    LET S1 == getState(S, roomId, t)
        st == S1[roomId]
    IN  IF st.historyIndex >= Len(st.history) - 1
        THEN [states |-> S1,
              ret |-> [success |-> FALSE, message |-> "Nothing to redo"]]
        ELSE [states |-> [S1 EXCEPT ![roomId].historyIndex = st.historyIndex + 1],
              ret |-> [success |-> TRUE,
                       canvasDataURL |-> st.history[st.historyIndex + 1].dataURL,
                       index |-> st.historyIndex + 1]]

redo(S, roomId, t) ==
    LET S1 == getState(S, roomId, t)
        st == S1[roomId]
    IN  IF st.historyIndex >= Len(st.history) - 1
        THEN [states |-> S1,
              ret |-> [success |-> FALSE, message |-> "Nothing to redo"]]
        ELSE [states |-> [S1 EXCEPT ![roomId].historyIndex = st.historyIndex + 1],
              ret |-> [success |-> TRUE,
                       canvasDataURL |-> st.history[(st.historyIndex + 1) + 1].dataURL,
                       index |-> st.historyIndex + 1]]

\* Mutant: the latest snapshot is returned, whatever the cursor.
getCurrentSnapshot_ReturnsLatest(S, roomId, t) ==
    LET S1 == getState(S, roomId, t)
        st == S1[roomId]
    IN  [states |-> S1,
         ret |-> IF st.historyIndex >= 0 /\ st.historyIndex < Len(st.history)
                 THEN st.history[Len(st.history)].dataURL
                 ELSE Null]

getCurrentSnapshot(S, roomId, t) ==
    LET S1 == getState(S, roomId, t)
        st == S1[roomId]
    IN  [states |-> S1,
         ret |-> IF st.historyIndex >= 0 /\ st.historyIndex < Len(st.history)
                 THEN st.history[st.historyIndex + 1].dataURL
                 ELSE Null]

\* cleanup(maxAge) called at time t: the states after the call and the number
\* of states deleted. A state is deleted when its age (measured from
\* metadata.lastModified) exceeds maxAge and its operation log is empty.
cleanup(S, maxAge, t) ==
    LET doomed == {r \in DOMAIN S :
                      /\ t - S[r].metadata.lastModified > maxAge
                      /\ Len(S[r].operations) = 0}
    IN  [states |-> [r \in (DOMAIN S) \ doomed |-> S[r]],
         ret |-> Cardinality(doomed)]

\* ------------------------------------------------------------------------
\* RoomManager (src/server/rooms.js)
\* A JavaScript Map keeps its keys in insertion order: room.users is the
\* sequence of its values, keyed by userId.
\* ------------------------------------------------------------------------
DEFAULT_MAX_USERS == 50

colors ==
    << "#FF6B6B", "#4ECDC4", "#45B7D1", "#FFA07A",
       "#98D8C8", "#F7DC6F", "#BB8FCE", "#85C1E2",
       "#F8B739", "#52B788", "#E63946", "#457B9D",
       "#E76F51", "#2A9D8F", "#E9C46A", "#F4A261" >>

\* color: null
NoColor == ""

\* Math.random() takes the values k / RandomSteps, k in 0..RandomSteps-1.
RandomSteps == 16

MapHas(m, key) == \E i \in 1..Len(m) : m[i].userId = key

MapGet(m, key) == m[CHOOSE i \in 1..Len(m) : m[i].userId = key]

MapSet(m, key, value) ==
    IF MapHas(m, key)
    THEN [i \in 1..Len(m) |-> IF m[i].userId = key THEN value ELSE m[i]]
    ELSE Append(m, value)

MapDelete(m, key) == SelectSeq(m, LAMBDA u : u.userId /= key)

\* createRoom(roomId, config); config.maxUsers = 0 stands for a config
\* without maxUsers. obj is the identity of the room object created (the
\* setTimeout callback of removeUserFromRoom keeps the object, not the id).
createRoom(R, roomId, config, obj, t) ==
    IF roomId \in DOMAIN R
    THEN R
    ELSE [r \in (DOMAIN R) \cup {roomId} |->
            IF r = roomId
            THEN [id |-> roomId,
                  obj |-> obj,
                  users |-> <<>>,
                  maxUsers |-> IF config.maxUsers /= 0
                               THEN config.maxUsers
                               ELSE DEFAULT_MAX_USERS,
                  createdAt |-> t]
            ELSE R[r]]

\* config = {}
NoConfig == [maxUsers |-> 0]

\* Math.floor(Math.random() * n), 0-based
randomIndex(rnd, n) == (rnd * n) \div RandomSteps

generateUserColor(room, rnd) ==
    LET usedColors == {room.users[i].color : i \in 1..Len(room.users)}
        availableColors == SelectSeq(colors, LAMBDA col : col \notin usedColors)
    IN  IF Len(availableColors) > 0
        THEN availableColors[randomIndex(rnd, Len(availableColors)) + 1]
        ELSE colors[randomIndex(rnd, Len(colors)) + 1]

\* deleteRoom without the guard on the default room.
deleteRoom_NoDefaultGuard(R, roomId) ==
    IF roomId \in DOMAIN R /\ Len(R[roomId].users) = 0
    THEN [rooms |-> [r \in (DOMAIN R) \ {roomId} |-> R[r]], ret |-> TRUE]
    ELSE [rooms |-> R, ret |-> FALSE]

\* deleteRoom without the check that the room is empty.
deleteRoom_NoEmptyCheck(R, roomId) ==
    IF roomId = defaultRoomId
    THEN [rooms |-> R, ret |-> FALSE]
    ELSE IF roomId \in DOMAIN R
    THEN [rooms |-> [r \in (DOMAIN R) \ {roomId} |-> R[r]], ret |-> TRUE]
    ELSE [rooms |-> R, ret |-> FALSE]

\* Returns the rooms after the call and the returned boolean.
deleteRoom(R, roomId) ==
    IF roomId = defaultRoomId
    THEN [rooms |-> R, ret |-> FALSE]
    ELSE IF roomId \in DOMAIN R /\ Len(R[roomId].users) = 0
    THEN [rooms |-> [r \in (DOMAIN R) \ {roomId} |-> R[r]], ret |-> TRUE]
    ELSE [rooms |-> R, ret |-> FALSE]

\* addUserToRoom with the capacity test off by one (> for >=).
addUserToRoom_OffByOne(R, roomId, user, rnd, t) ==
    IF roomId \notin DOMAIN R
    THEN [rooms |-> R, ret |-> FALSE, user |-> user]
    ELSE IF Len(R[roomId].users) > R[roomId].maxUsers
    THEN [rooms |-> R, ret |-> FALSE, user |-> user]
    ELSE LET colored == IF user.color = NoColor
                        THEN [user EXCEPT !.color = generateUserColor(R[roomId], rnd)]
                        ELSE user
             stored == [socketId |-> colored.socketId,
                        userId |-> colored.userId,
                        userName |-> colored.userName,
                        color |-> colored.color,
                        joinedAt |-> t]
         IN  [rooms |-> [R EXCEPT ![roomId].users = MapSet(@, colored.userId, stored)],
              ret |-> TRUE,
              user |-> colored]

\* Returns the rooms after the call, the returned boolean, and the user
\* object passed in (the method assigns its color in place).
addUserToRoom(R, roomId, user, rnd, t) ==
    IF roomId \notin DOMAIN R
    THEN [rooms |-> R, ret |-> FALSE, user |-> user]
    ELSE IF Len(R[roomId].users) >= R[roomId].maxUsers
    THEN [rooms |-> R, ret |-> FALSE, user |-> user]
    ELSE LET colored == IF user.color = NoColor
                        THEN [user EXCEPT !.color = generateUserColor(R[roomId], rnd)]
                        ELSE user
             stored == [socketId |-> colored.socketId,
                        userId |-> colored.userId,
                        userName |-> colored.userName,
                        color |-> colored.color,
                        joinedAt |-> t]
         IN  [rooms |-> [R EXCEPT ![roomId].users = MapSet(@, colored.userId, stored)],
              ret |-> TRUE,
              user |-> colored]

\* Mutant: the leave that empties a room sets no timer.
removeUserFromRoom_NoTimer(R, T, roomId, userId, t) ==
    IF roomId \notin DOMAIN R
    THEN [rooms |-> R, timers |-> T, ret |-> FALSE]
    ELSE [rooms |-> [R EXCEPT ![roomId].users = MapDelete(@, userId)],
          timers |-> T,
          ret |-> TRUE]

\* Returns the rooms and the pending timers after the call at time t, and the
\* returned boolean. The callback given to setTimeout keeps the room object
\* and the room id; all timers have the same delay, so they run in the order
\* they were set.
removeUserFromRoom(R, T, roomId, userId, t) ==
    IF roomId \notin DOMAIN R
    THEN [rooms |-> R, timers |-> T, ret |-> FALSE]
    ELSE LET users == MapDelete(R[roomId].users, userId)
         IN  [rooms |-> [R EXCEPT ![roomId].users = users],
              timers |-> IF Len(users) = 0 /\ roomId /= defaultRoomId
                         THEN Append(T, [roomId |-> roomId,
                                         obj |-> R[roomId].obj,
                                         due |-> t + EMPTY_ROOM_DELAY])
                         ELSE T,
              ret |-> TRUE]

\* room.users.size of the room object a timer kept. An object that is no
\* longer registered was empty when deleteRoom removed it, and nothing
\* reaches it since.
keptRoomSize(R, timer) ==
    IF timer.roomId \in DOMAIN R /\ R[timer.roomId].obj = timer.obj
    THEN Len(R[timer.roomId].users)
    ELSE 0

\* The setTimeout callback of removeUserFromRoom: the rooms after it ran.
deferredDelete(R, timer) ==
    IF keptRoomSize(R, timer) = 0
    THEN deleteRoom(R, timer.roomId).rooms
    ELSE R

\* The keys of room.users.
MemberIdsOf(R, roomId) ==
    IF roomId \notin DOMAIN R
    THEN {}
    ELSE {R[roomId].users[i].userId : i \in 1..Len(R[roomId].users)}

getUsersInRoom(R, roomId) ==
    IF roomId \notin DOMAIN R
    THEN <<>>
    ELSE [i \in 1..Len(R[roomId].users) |->
            [userId |-> R[roomId].users[i].userId,
             userName |-> R[roomId].users[i].userName,
             color |-> R[roomId].users[i].color,
             joinedAt |-> R[roomId].users[i].joinedAt]]

\* ------------------------------------------------------------------------
\* Connections, clients and the bounds of the sync specifications
\* ------------------------------------------------------------------------
Conns == {"c1", "c2"}

\* SocketManager.userId / userName: generated once per page, all different.
clientUserId(c) == IF c = "c1" THEN "u1" ELSE "u2"

clientUserName(c) == IF c = "c1" THEN "User_1" ELSE "User_2"

\* Rooms that exist in the sync specifications (the client never names a room: it joins the
\* default one).
SyncRooms == {defaultRoomId}

\* Room ids a join-room message may name ("" names none).
RoomIds == {defaultRoomId, "r1"}

\* Values of Math.random() drawn in the sync specifications.
SyncRandoms == {0}

\* Mouse moves while drawing (segments), over all clients.
MaxSegs == 2

\* Strokes begun (mouse down), over all clients.
MaxStrokes == 2

\* Clicks on Clear, Undo and Redo, over all clients.
MaxClearClicks == 1

MaxUndoClicks == 1

MaxRedoClicks == 1
\* A client acts while fewer than this many of its messages are unhandled.
MaxInFlight == 1

\* currentStrokeId = null
NoStroke == 0

\* socket.emit(...): to one connection
emit(Q, c, m) == [Q EXCEPT ![c] = Append(@, m)]

\* io.to(roomId).emit(...): to every socket that joined roomId
ioTo(Q, SR, roomId, m) ==
    [d \in Conns |-> IF roomId \in SR[d] THEN Append(Q[d], m) ELSE Q[d]]

\* Mutant: the relay reaches the sender too (io.to for socket.to).
socketTo_IncludesSender(Q, SR, c, roomId, m) ==
    [d \in Conns |-> IF roomId \in SR[d] THEN Append(Q[d], m) ELSE Q[d]]

\* socket.to(roomId).emit(...): to every socket that joined roomId but the
\* sender
socketTo(Q, SR, c, roomId, m) ==
    [d \in Conns |-> IF roomId \in SR[d] /\ d /= c THEN Append(Q[d], m) ELSE Q[d]]

\* getRecentOperations(roomId, count): operations.slice(-count)
getRecentOperations(S, roomId, count) ==
    LET ops == S[roomId].operations
    IN  IF Len(ops) <= count THEN ops ELSE SubSeq(ops, Len(ops) - count + 1, Len(ops))

RECENT_COUNT == 100

InitManagers ==
    /\ states = << >>
    /\ now = 0
    /\ nextOpId = 1
    /\ rooms = createRoom(<< >>, defaultRoomId, NoConfig, 0, 0)
    /\ timers = << >>
    /\ nextObj = 1

InitConnections ==
    /\ currentUser = [c \in Conns |-> Null]
    /\ currentRoomId = [c \in Conns |-> defaultRoomId]
    /\ sockRooms = [c \in Conns |-> {}]
    /\ c2s = [c \in Conns |-> <<>>]
    /\ s2c = [c \in Conns |-> <<>>]

InitClients ==
    /\ isConnected = [c \in Conns |-> FALSE]
    /\ userColor = [c \in Conns |-> NoColor]
    /\ cursorThrottle = [c \in Conns |-> FALSE]
    /\ throttleTimers = [c \in Conns |-> {}]
    /\ cursorMoveTimes = [c \in Conns |-> << >>]
    /\ canvas = [c \in Conns |-> {}]
    /\ loading = [c \in Conns |-> {}]
    /\ isDrawing = [c \in Conns |-> FALSE]
    /\ currentStrokeId = [c \in Conns |-> NoStroke]
    /\ clicks = [stroke |-> 0, clear |-> 0, undo |-> 0, redo |-> 0]
    /\ nextSeg = 1
    /\ settled = [r \in RoomIds |-> "none"]
    /\ clearsHandled = [r \in RoomIds |-> 0]
    /\ clearsKnown = [c \in Conns |-> 0]

InitCalls ==
    /\ result = [op |-> "constructor"]
    /\ nSnap = 0
    /\ nUndoRedo = 0
    /\ roomCalls = [join |-> 0, rejoin |-> 0, leave |-> 0]

\* ------------------------------------------------------------------------
\* SpecHist: the DrawingStateManager called directly, in any order.
\* ------------------------------------------------------------------------
InitHist ==
    /\ InitManagers
    /\ InitConnections
    /\ InitClients
    /\ InitCalls

\* saveSnapshot(roomId, canvasDataURL); every call passes a different image.
CallSaveSnapshot(roomId) ==
    /\ nSnap < MaxSnap
    /\ states' = saveSnapshot(states, roomId, toDataURL({nSnap + 1}), now)
    /\ result' = [op |-> "saveSnapshot", roomId |-> roomId, ret |-> TRUE]
    /\ nSnap' = nSnap + 1
    /\ UNCHANGED <<now, nextOpId, nUndoRedo, roomCalls, syncVars>>

CallUndo(roomId) ==
    /\ nUndoRedo < MaxUndoRedo
    /\ states' = undo(states, roomId, now).states
    /\ result' = [op |-> "undo", roomId |-> roomId, ret |-> undo(states, roomId, now).ret]
    /\ nUndoRedo' = nUndoRedo + 1
    /\ UNCHANGED <<now, nextOpId, nSnap, roomCalls, syncVars>>

CallRedo(roomId) ==
    /\ nUndoRedo < MaxUndoRedo
    /\ states' = redo(states, roomId, now).states
    /\ result' = [op |-> "redo", roomId |-> roomId, ret |-> redo(states, roomId, now).ret]
    /\ nUndoRedo' = nUndoRedo + 1
    /\ UNCHANGED <<now, nextOpId, nSnap, roomCalls, syncVars>>

CallClearOperations(roomId) ==
    /\ states' = clearOperations(states, roomId, now)
    /\ result' = [op |-> "clearOperations", roomId |-> roomId]
    /\ UNCHANGED <<now, nextOpId, nSnap, nUndoRedo, roomCalls, syncVars>>

CallAddOperation(roomId) ==
    /\ nextOpId <= MaxOps
    /\ LET r == addOperation(states, roomId,
                             [seg |-> nextOpId, strokeId |-> nextOpId,
                              userId |-> "u1", userName |-> "User_1"],
                             nextOpId, now)
       IN  /\ states' = r.states
           /\ result' = [op |-> "addOperation", roomId |-> roomId, ret |-> r.ret]
    /\ nextOpId' = nextOpId + 1
    /\ UNCHANGED <<now, nSnap, nUndoRedo, roomCalls, syncVars>>

NextHist ==
    \/ \E roomId \in HistRooms : CallSaveSnapshot(roomId)
    \/ \E roomId \in HistRooms : CallUndo(roomId)
    \/ \E roomId \in HistRooms : CallRedo(roomId)
    \/ \E roomId \in HistRooms : CallClearOperations(roomId)
    \/ \E roomId \in HistRooms : CallAddOperation(roomId)

SpecHist == InitHist /\ [][NextHist]_vars

\* ------------------------------------------------------------------------
\* SpecOps: addOperation called often enough to fill the operation log, with
\* getRecentOperations reading it.
\* ------------------------------------------------------------------------
CallAddOperationToLog(roomId) ==
    /\ nextOpId <= MaxLogOps
    /\ LET r == addOperation(states, roomId,
                             [seg |-> nextOpId, strokeId |-> nextOpId,
                              userId |-> "u1", userName |-> "User_1"],
                             nextOpId, now)
       IN  /\ states' = r.states
           /\ result' = [op |-> "addOperation", roomId |-> roomId, ret |-> r.ret]
    /\ nextOpId' = nextOpId + 1
    /\ UNCHANGED <<now, nSnap, nUndoRedo, roomCalls, syncVars>>

CallGetRecentOperations(roomId) ==
    /\ result.op = "addOperation"
    /\ LET S1 == getState(states, roomId, now)
       IN  /\ states' = S1
           /\ result' = [op |-> "getRecentOperations", roomId |-> roomId,
                         ret |-> getRecentOperations(S1, roomId, RECENT_COUNT)]
    /\ UNCHANGED <<now, nextOpId, nSnap, nUndoRedo, roomCalls, syncVars>>

NextOps ==
    \/ \E roomId \in HistRooms : CallAddOperationToLog(roomId)
    \/ \E roomId \in HistRooms : CallGetRecentOperations(roomId)

SpecOps == InitHist /\ [][NextOps]_vars

\* ------------------------------------------------------------------------
\* SpecCleanup: the DrawingStateManager called directly while time passes,
\* with cleanup called at any moment.
\* ------------------------------------------------------------------------
\* Date.now() advances by d milliseconds; a timer that is due runs before
\* time passes on.
TimePasses(d) ==
    /\ IF timers = << >> THEN TRUE ELSE now + d <= Head(timers).due
    /\ now' = now + d
    /\ UNCHANGED <<states, nextOpId, callVars, syncVars>>

\* Time is observed in steps of twelve hours (a multiple of
\* CLEANUP_INTERVAL).
HalfDay == 12 * CLEANUP_INTERVAL

CallCleanup(maxAge) ==
    /\ states' = cleanup(states, maxAge, now).states
    /\ result' = [op |-> "cleanup", ret |-> cleanup(states, maxAge, now).ret]
    /\ UNCHANGED <<now, nextOpId, nSnap, nUndoRedo, roomCalls, syncVars>>

NextCleanup ==
    \/ \E roomId \in HistRooms : nSnap < MaxCleanupSnaps /\ CallSaveSnapshot(roomId)
    \/ \E roomId \in HistRooms : CallUndo(roomId)
    \/ \E roomId \in HistRooms : CallRedo(roomId)
    \/ \E roomId \in HistRooms : CallClearOperations(roomId)
    \/ \E roomId \in HistRooms : CallAddOperation(roomId)
    \/ now < MaxHalfDays * HalfDay /\ TimePasses(HalfDay)
    \/ CallCleanup(CLEANUP_MAX_AGE)

SpecCleanup == InitHist /\ [][NextCleanup]_vars

\* ------------------------------------------------------------------------
\* SpecRooms: the RoomManager called directly, in any order, with the timers
\* its removeUserFromRoom sets.
\* ------------------------------------------------------------------------
\* Users and config.maxUsers values of the calls (0: a config without maxUsers).
RoomUsers == {"u1", "u2"}

RoomCapacities == {0, 1}

CallCreateRoom(roomId, maxUsers) ==
    /\ roomId \in DOMAIN rooms \/ nextObj <= MaxRoomObjs
    /\ rooms' = createRoom(rooms, roomId, [maxUsers |-> maxUsers], nextObj, now)
    /\ nextObj' = IF roomId \in DOMAIN rooms THEN nextObj ELSE nextObj + 1
    /\ result' = [op |-> "createRoom", roomId |-> roomId]
    /\ UNCHANGED <<dsmVars, nSnap, nUndoRedo, roomCalls, connVars, timers, netVars, clientVars,
                   gestureVars, historyVars>>

CallDeleteRoom(roomId) ==
    /\ rooms' = deleteRoom(rooms, roomId).rooms
    /\ result' = [op |-> "deleteRoom", roomId |-> roomId,
                  ret |-> deleteRoom(rooms, roomId).ret]
    /\ UNCHANGED <<dsmVars, nSnap, nUndoRedo, roomCalls, connVars, timers, nextObj, netVars,
                   clientVars, gestureVars, historyVars>>

CallAddUserToRoom(roomId, userId, rnd) ==
    /\ LET added == addUserToRoom(rooms, roomId,
                                  [socketId |-> "c1", userId |-> userId,
                                   userName |-> userId, color |-> NoColor],
                                  rnd, now)
       IN  /\ rooms' = added.rooms
           /\ result' = [op |-> "addUserToRoom", roomId |-> roomId,
                         userId |-> userId, ret |-> added.ret]
    /\ UNCHANGED <<dsmVars, nSnap, nUndoRedo, roomCalls, connVars, timers, nextObj, netVars,
                   clientVars, gestureVars, historyVars>>

CallRemoveUserFromRoom(roomId, userId) ==
    /\ Len(timers) < MaxTimers
    /\ LET removed == removeUserFromRoom(rooms, timers, roomId, userId, now)
       IN  /\ rooms' = removed.rooms
           /\ timers' = removed.timers
           /\ result' = [op |-> "removeUserFromRoom", roomId |-> roomId,
                         userId |-> userId, ret |-> removed.ret]
    /\ UNCHANGED <<dsmVars, nSnap, nUndoRedo, roomCalls, connVars, nextObj, netVars, clientVars,
                   gestureVars, historyVars>>

\* The oldest pending timer runs its callback (in the specifications in which
\* no time passes: at any moment after it was set).
TimerFires ==
    /\ timers /= << >>
    /\ rooms' = deferredDelete(rooms, Head(timers))
    /\ timers' = Tail(timers)
    /\ result' = [op |-> "timer", roomId |-> Head(timers).roomId,
                  obj |-> Head(timers).obj]
    /\ UNCHANGED <<dsmVars, nSnap, nUndoRedo, roomCalls, connVars, nextObj, netVars, clientVars,
                   gestureVars, historyVars>>

NextRooms ==
    \/ \E roomId \in RoomIds, maxUsers \in RoomCapacities :
          CallCreateRoom(roomId, maxUsers)
    \/ \E roomId \in RoomIds : CallDeleteRoom(roomId)
    \/ \E roomId \in RoomIds, userId \in RoomUsers, rnd \in SyncRandoms :
          CallAddUserToRoom(roomId, userId, rnd)
    \/ \E roomId \in RoomIds, userId \in RoomUsers :
          CallRemoveUserFromRoom(roomId, userId)
    \/ TimerFires

SpecRooms == InitHist /\ [][NextRooms]_vars

\* SpecRooms with every timer that was set running in the end.
SpecRoomsLive == InitHist /\ [][NextRooms]_vars /\ WF_vars(TimerFires)

\* ------------------------------------------------------------------------
\* SpecColors: users join and leave the default room through the
\* RoomManager, more of them than there are colors.
\* ------------------------------------------------------------------------
colorUser(n) == "u" \o ToString(n)

newUser(userId) ==
    [socketId |-> "c1", userId |-> userId, userName |-> userId, color |-> NoColor]

\* addUserToRoom for a user that has not joined before.
JoinsAsNew(rnd) ==
    /\ roomCalls.join < MaxColorUsers
    /\ LET userId == colorUser(roomCalls.join + 1)
           added == addUserToRoom(rooms, defaultRoomId, newUser(userId), rnd, now)
       IN  /\ rooms' = added.rooms
           /\ result' = [op |-> "addUserToRoom", roomId |-> defaultRoomId,
                         userId |-> userId, ret |-> added.ret]
    /\ roomCalls' = [roomCalls EXCEPT !.join = @ + 1]
    /\ UNCHANGED <<dsmVars, nSnap, nUndoRedo, connVars, timers, nextObj, netVars,
                   clientVars, gestureVars, historyVars>>

\* addUserToRoom for a user that is a member already (a second join-room with
\* the same userId).
JoinsAgain(userId, rnd) ==
    /\ roomCalls.rejoin < MaxRejoins
    /\ userId \in MemberIdsOf(rooms, defaultRoomId)
    /\ LET added == addUserToRoom(rooms, defaultRoomId, newUser(userId), rnd, now)
       IN  /\ rooms' = added.rooms
           /\ result' = [op |-> "addUserToRoom", roomId |-> defaultRoomId,
                         userId |-> userId, ret |-> added.ret]
    /\ roomCalls' = [roomCalls EXCEPT !.rejoin = @ + 1]
    /\ UNCHANGED <<dsmVars, nSnap, nUndoRedo, connVars, timers, nextObj, netVars,
                   clientVars, gestureVars, historyVars>>

\* removeUserFromRoom for a member.
Leaves(userId) ==
    /\ roomCalls.leave < MaxLeaves
    /\ userId \in MemberIdsOf(rooms, defaultRoomId)
    /\ LET removed == removeUserFromRoom(rooms, timers, defaultRoomId, userId, now)
       IN  /\ rooms' = removed.rooms
           /\ timers' = removed.timers
           /\ result' = [op |-> "removeUserFromRoom", roomId |-> defaultRoomId,
                         userId |-> userId, ret |-> removed.ret]
    /\ roomCalls' = [roomCalls EXCEPT !.leave = @ + 1]
    /\ UNCHANGED <<dsmVars, nSnap, nUndoRedo, connVars, nextObj, netVars, clientVars,
                   gestureVars, historyVars>>

ColorUsers == {colorUser(n) : n \in 1..MaxColorUsers}

NextColors ==
    \/ \E rnd \in SyncRandoms : JoinsAsNew(rnd)
    \/ \E userId \in ColorUsers, rnd \in SyncRandoms : JoinsAgain(userId, rnd)
    \/ \E userId \in ColorUsers : Leaves(userId)

SpecColors == InitHist /\ [][NextColors]_vars

\* ------------------------------------------------------------------------
\* SpecGrace: users join and leave rooms through the RoomManager while time
\* passes; a timer runs when it is due.
\* ------------------------------------------------------------------------
\* Time is observed in steps of half the delay of the timers.
GraceStep == EMPTY_ROOM_DELAY \div 2

\* What join-room does with the RoomManager: the room is created if it is not
\* registered, then the user is added to it.
JoinsRoom(roomId, userId, rnd) ==
    /\ roomId \in DOMAIN rooms \/ nextObj <= MaxRoomObjs
    /\ LET rooms1 == createRoom(rooms, roomId, NoConfig, nextObj, now)
           added == addUserToRoom(rooms1, roomId, newUser(userId), rnd, now)
       IN  /\ rooms' = added.rooms
           /\ result' = [op |-> "addUserToRoom", roomId |-> roomId,
                         userId |-> userId, ret |-> added.ret]
    /\ nextObj' = IF roomId \in DOMAIN rooms THEN nextObj ELSE nextObj + 1
    /\ UNCHANGED <<dsmVars, nSnap, nUndoRedo, roomCalls, connVars, timers, netVars,
                   clientVars, gestureVars, historyVars>>

\* removeUserFromRoom for a member of the room.
MemberLeaves(roomId, userId) ==
    /\ userId \in MemberIdsOf(rooms, roomId)
    /\ CallRemoveUserFromRoom(roomId, userId)

\* The oldest pending timer is due and runs its callback.
TimerRuns ==
    /\ timers /= << >>
    /\ now >= Head(timers).due
    /\ TimerFires

\* The rooms joined in SpecGrace: a room that is not the default one.
GraceRooms == RoomIds \ {defaultRoomId}

NextGrace ==
    \/ \E roomId \in GraceRooms, userId \in RoomUsers, rnd \in SyncRandoms :
          JoinsRoom(roomId, userId, rnd)
    \/ \E roomId \in GraceRooms, userId \in RoomUsers : MemberLeaves(roomId, userId)
    \/ now < MaxGraceSteps * GraceStep /\ TimePasses(GraceStep)
    \/ TimerRuns

SpecGrace == InitHist /\ [][NextGrace]_vars

\* ------------------------------------------------------------------------
\* The client (src/client/canvas.js, SocketManager of src/unnamed/part_000,
\* toolbar of src/unnamed/part_000)
\* ------------------------------------------------------------------------
\* socket.on('connect'): the client joins without naming a room.
ClientConnect(c) ==
    /\ ~isConnected[c]
    /\ isConnected' = [isConnected EXCEPT ![c] = TRUE]
    /\ c2s' = emit(c2s, c, [type |-> "join-room",
                            userId |-> clientUserId(c),
                            userName |-> clientUserName(c),
                            roomId |-> ""])
    /\ UNCHANGED <<dsmVars, callVars, serverVars, s2c, userColor, cursorVars,
                   canvas, loading, isDrawing, currentStrokeId, gestureVars, historyVars>>

\* CanvasManager.startDrawing (mouse down): refused while not connected.
StartDrawing(c) ==
    /\ ~isDrawing[c]
    /\ isConnected[c]
    /\ clicks.stroke < MaxStrokes
    /\ isDrawing' = [isDrawing EXCEPT ![c] = TRUE]
    /\ currentStrokeId' = [currentStrokeId EXCEPT ![c] = clicks.stroke + 1]
    /\ clicks' = [clicks EXCEPT !.stroke = @ + 1]
    /\ UNCHANGED <<dsmVars, callVars, serverVars, netVars, isConnected, userColor,
                   cursorVars, canvas, loading, nextSeg, historyVars>>

\* CanvasManager.draw (mouse move while drawing): the segment is drawn on the
\* own canvas and sent with emitDrawing.
Draw(c) ==
    /\ isDrawing[c]
    /\ Len(c2s[c]) < MaxInFlight
    /\ nextSeg <= MaxSegs
    /\ canvas' = [canvas EXCEPT ![c] = @ \cup {nextSeg}]
    /\ c2s' = IF isConnected[c]
              THEN emit(c2s, c, [type |-> "draw",
                                 seg |-> nextSeg,
                                 strokeId |-> currentStrokeId[c],
                                 userId |-> clientUserId(c),
                                 userName |-> clientUserName(c),
                                 knows |-> clearsKnown[c]])
              ELSE c2s
    /\ nextSeg' = nextSeg + 1
    /\ UNCHANGED <<dsmVars, callVars, serverVars, s2c, isConnected, userColor, cursorVars,
                   loading, isDrawing, currentStrokeId, clicks, historyVars>>

\* CanvasManager.stopDrawing (mouse up / out): the canvas is sent as a
\* snapshot with saveCanvasSnapshot.
StopDrawing(c) ==
    /\ isDrawing[c]
    /\ Len(c2s[c]) < MaxInFlight
    /\ isDrawing' = [isDrawing EXCEPT ![c] = FALSE]
    /\ c2s' = IF isConnected[c]
              THEN emit(c2s, c, [type |-> "save-snapshot",
                                 canvasData |-> toDataURL(canvas[c]),
                                 userId |-> clientUserId(c),
                                 userName |-> clientUserName(c),
                                 knows |-> clearsKnown[c]])
              ELSE c2s
    /\ currentStrokeId' = [currentStrokeId EXCEPT ![c] = NoStroke]
    /\ UNCHANGED <<dsmVars, callVars, serverVars, s2c, isConnected, userColor, cursorVars,
                   canvas, loading, gestureVars, historyVars>>

\* Clear button: CanvasManager.clearCanvas clears the own canvas, then
\* emitClear.
ClickClear(c) ==
    /\ ~isDrawing[c]
    /\ Len(c2s[c]) < MaxInFlight
    /\ clicks.clear < MaxClearClicks
    /\ canvas' = [canvas EXCEPT ![c] = {}]
    /\ c2s' = IF isConnected[c]
              THEN emit(c2s, c, [type |-> "clear-canvas",
                                 userId |-> clientUserId(c),
                                 userName |-> clientUserName(c)])
              ELSE c2s
    /\ clicks' = [clicks EXCEPT !.clear = @ + 1]
    /\ clearsKnown' = IF isConnected[c]
                      THEN [clearsKnown EXCEPT ![c] = @ + 1]
                      ELSE clearsKnown
    /\ UNCHANGED <<dsmVars, callVars, serverVars, s2c, isConnected, userColor, cursorVars,
                   loading, isDrawing, currentStrokeId, nextSeg, settled, clearsHandled>>

\* Undo button / Ctrl+Z: emitUndo, only while connected.
ClickUndo(c) ==
    /\ isConnected[c]
    /\ Len(c2s[c]) < MaxInFlight
    /\ clicks.undo < MaxUndoClicks
    /\ c2s' = emit(c2s, c, [type |-> "undo-request",
                            userId |-> clientUserId(c),
                            userName |-> clientUserName(c)])
    /\ clicks' = [clicks EXCEPT !.undo = @ + 1]
    /\ UNCHANGED <<dsmVars, callVars, serverVars, s2c, clientVars, nextSeg, historyVars>>

\* Redo button / Ctrl+Shift+Z: emitRedo, only while connected.
ClickRedo(c) ==
    /\ isConnected[c]
    /\ Len(c2s[c]) < MaxInFlight
    /\ clicks.redo < MaxRedoClicks
    /\ c2s' = emit(c2s, c, [type |-> "redo-request",
                            userId |-> clientUserId(c),
                            userName |-> clientUserName(c)])
    /\ clicks' = [clicks EXCEPT !.redo = @ + 1]
    /\ UNCHANGED <<dsmVars, callVars, serverVars, s2c, clientVars, nextSeg, historyVars>>

\* The segments a 'drawing-history' replay draws: those of other users.
replayed(c, operations) ==
    {operations[i].seg : i \in {j \in 1..Len(operations) :
                                    operations[j].userId /= clientUserId(c)}}

\* The canvas of client c after its socket.on(m.type) listener has run.
\*  - drawing-data, canvas-cleared: skipped when the message names the client
\*    itself;
\*  - global-undo calls window.canvasManager.redrawOperations, which
\*    CanvasManager does not define: the listener throws before it draws;
\*  - global-redo draws data.operations, which the server never sends;
\*  - canvas-state only starts loading an image (see ImageOnload);
\*  - the other messages update the user list and the notifications only.
canvasAfter(c, m) ==
    CASE m.type = "drawing-data" ->
            IF m.userId /= clientUserId(c) THEN canvas[c] \cup {m.seg} ELSE canvas[c]
      [] m.type = "drawing-history" -> canvas[c] \cup replayed(c, m.operations)
      [] m.type = "canvas-cleared" ->
            IF m.userId /= clientUserId(c) THEN {} ELSE canvas[c]
      [] m.type = "global-undo" -> canvas[c]
      [] m.type = "global-redo" -> canvas[c]
      [] OTHER -> canvas[c]

\* The client handles the next message the server sent it.
Deliver(c) ==
    /\ s2c[c] /= <<>>
    /\ LET m == Head(s2c[c])
       IN  /\ canvas' = [canvas EXCEPT ![c] = canvasAfter(c, m)]
           /\ userColor' = IF m.type = "welcome"
                           THEN [userColor EXCEPT ![c] = m.color]
                           ELSE userColor
           /\ loading' = IF m.type = "canvas-state" /\ m.canvasData /= Null
                         THEN [loading EXCEPT ![c] = @ \cup {m.canvasData}]
                         ELSE loading
           /\ clearsKnown' = IF m.type = "canvas-cleared" /\ m.userId /= clientUserId(c)
                             THEN [clearsKnown EXCEPT ![c] = @ + 1]
                             ELSE clearsKnown
    /\ s2c' = [s2c EXCEPT ![c] = Tail(@)]
    /\ UNCHANGED <<dsmVars, callVars, serverVars, c2s, isConnected, cursorVars,
                   isDrawing, currentStrokeId, gestureVars, settled, clearsHandled>>

\* img.onload of CanvasManager.loadCanvasData: the canvas is replaced by the
\* image.
ImageOnload(c) ==
    /\ \E dataURL \in loading[c] :
          /\ canvas' = [canvas EXCEPT ![c] = drawImage(dataURL)]
          /\ loading' = [loading EXCEPT ![c] = @ \ {dataURL}]
    /\ UNCHANGED <<dsmVars, callVars, serverVars, netVars, isConnected, userColor,
                   cursorVars, isDrawing, currentStrokeId, gestureVars, historyVars>>

\* Mutant: emitCursorMove without the throttle test.
emitCursorMove_NoThrottle(connected, throttle, t) ==
    IF ~connected
    THEN [sent |-> FALSE, throttle |-> throttle, timers |-> {}]
    ELSE [sent |-> TRUE, throttle |-> TRUE, timers |-> {t + CURSOR_THROTTLE}]

\* SocketManager.emitCursorMove(x, y) called at time t: is a cursor-move
\* sent, the value of cursorThrottle after the call, and the due times of the
\* timers the call sets.
emitCursorMove(connected, throttle, t) ==
    IF ~connected
    THEN [sent |-> FALSE, throttle |-> throttle, timers |-> {}]
    ELSE IF ~throttle
    THEN [sent |-> TRUE, throttle |-> TRUE, timers |-> {t + CURSOR_THROTTLE}]
    ELSE [sent |-> FALSE, throttle |-> throttle, timers |-> {}]

\* A mouse move over the canvas: the page calls emitCursorMove.
MovesCursor(c) ==
    /\ Len(c2s[c]) < MaxInFlight
    /\ LET r == emitCursorMove(isConnected[c], cursorThrottle[c], now)
       IN  /\ cursorThrottle' = [cursorThrottle EXCEPT ![c] = r.throttle]
           /\ throttleTimers' = [throttleTimers EXCEPT ![c] = @ \cup r.timers]
           /\ c2s' = IF r.sent
                     THEN emit(c2s, c, [type |-> "cursor-move", x |-> now, y |-> now])
                     ELSE c2s
           /\ cursorMoveTimes' = IF r.sent
                                 THEN [cursorMoveTimes EXCEPT ![c] = Append(@, now)]
                                 ELSE cursorMoveTimes
           /\ result' = [op |-> "emitCursorMove", client |-> c, sent |-> r.sent]
    /\ UNCHANGED <<dsmVars, nSnap, nUndoRedo, roomCalls, serverVars, s2c, isConnected,
                   userColor, canvas, loading, isDrawing, currentStrokeId,
                   gestureVars, historyVars>>

\* The callback of a setTimeout of emitCursorMove runs, not before it is due.
ThrottleExpires(c) ==
    /\ \E due \in throttleTimers[c] :
          /\ now >= due
          /\ throttleTimers' = [throttleTimers EXCEPT ![c] = @ \ {due}]
    /\ cursorThrottle' = [cursorThrottle EXCEPT ![c] = FALSE]
    /\ UNCHANGED <<dsmVars, callVars, serverVars, netVars, isConnected, userColor,
                   cursorMoveTimes, canvas, loading, isDrawing, currentStrokeId,
                   gestureVars, historyVars>>

\* ------------------------------------------------------------------------
\* The server's socket handlers (src/server/server.js); each handles the
\* oldest unhandled message of one connection.
\* ------------------------------------------------------------------------
Incoming(c, type) == c2s[c] /= <<>> /\ Head(c2s[c]).type = type

\* if (!currentUser || !currentRoomId) return;
Bound(c) == currentUser[c] /= Null /\ currentRoomId[c] /= ""

\* History variable: a message sent by a client that did not yet know of the
\* last clear handled leaves the room "cleared"; any other one ends that.
afterAdditive(roomId, m) ==
    IF settled[roomId] = "clear" /\ m.knows < clearsHandled[roomId]
    THEN settled
    ELSE [settled EXCEPT ![roomId] = "none"]

\* socket.on('join-room')
HandleJoinRoom(c) ==
    /\ Incoming(c, "join-room")
    /\ \E rnd \in SyncRandoms :
        LET data == Head(c2s[c])
            roomId == IF data.roomId /= "" THEN data.roomId ELSE defaultRoomId
            rooms1 == IF roomId \notin DOMAIN rooms
                      THEN createRoom(rooms, roomId, NoConfig, nextObj, now)
                      ELSE rooms
            user == [socketId |-> c, userId |-> data.userId,
                     userName |-> data.userName, color |-> NoColor]
            added == addUserToRoom(rooms1, roomId, user, rnd, now)
        IN  /\ currentRoomId' = [currentRoomId EXCEPT ![c] = roomId]
            /\ rooms' = added.rooms
            /\ nextObj' = IF roomId \notin DOMAIN rooms THEN nextObj + 1 ELSE nextObj
            /\ IF ~added.ret
               THEN /\ currentUser' = [currentUser EXCEPT ![c] = added.user]
                    /\ s2c' = emit(s2c, c, [type |-> "join-failed"])
                    /\ UNCHANGED <<states, sockRooms, settled>>
               ELSE LET roomUser == MapGet(added.rooms[roomId].users, data.userId)
                        me == [added.user EXCEPT !.color = roomUser.color]
                        SR == [sockRooms EXCEPT ![c] = @ \cup {roomId}]
                        snap == getCurrentSnapshot(states, roomId, now)
                        recentOps == getRecentOperations(snap.states, roomId, RECENT_COUNT)
                        q1 == emit(s2c, c, [type |-> "welcome",
                                            userId |-> data.userId,
                                            userName |-> data.userName,
                                            color |-> me.color,
                                            roomId |-> roomId])
                        q2 == IF snap.ret /= Null
                              THEN emit(q1, c, [type |-> "canvas-state",
                                                canvasData |-> snap.ret])
                              ELSE q1
                        q3 == IF Len(recentOps) > 0
                              THEN emit(q2, c, [type |-> "drawing-history",
                                                operations |-> recentOps])
                              ELSE q2
                        q4 == ioTo(q3, SR, roomId, [type |-> "user-joined",
                                                    userId |-> data.userId,
                                                    userName |-> data.userName,
                                                    color |-> me.color])
                        q5 == ioTo(q4, SR, roomId,
                                   [type |-> "users-update",
                                    users |-> getUsersInRoom(added.rooms, roomId)])
                    IN  /\ currentUser' = [currentUser EXCEPT ![c] = me]
                        /\ sockRooms' = SR
                        /\ states' = snap.states
                        /\ s2c' = q5
                        /\ settled' = [settled EXCEPT ![roomId] = "none"]
    /\ c2s' = [c2s EXCEPT ![c] = Tail(@)]
    /\ UNCHANGED <<now, nextOpId, callVars, timers, clientVars, gestureVars,
                   clearsHandled, clearsKnown>>

\* socket.on('draw')
HandleDraw(c) ==
    /\ Incoming(c, "draw")
    /\ LET data == Head(c2s[c])
           added == addOperation(states, currentRoomId[c],
                                 [seg |-> data.seg, strokeId |-> data.strokeId,
                                  userId |-> currentUser[c].userId,
                                  userName |-> currentUser[c].userName],
                                 nextOpId, now)
       IN  IF ~Bound(c)
           THEN UNCHANGED <<states, nextOpId, s2c, settled>>
           ELSE /\ states' = added.states
                /\ nextOpId' = nextOpId + 1
                /\ s2c' = socketTo(s2c, sockRooms, c, currentRoomId[c],
                                   [type |-> "drawing-data"] @@ added.ret)
                /\ settled' = afterAdditive(currentRoomId[c], data)
    /\ c2s' = [c2s EXCEPT ![c] = Tail(@)]
    /\ UNCHANGED <<now, callVars, serverVars, clientVars, gestureVars,
                   clearsHandled, clearsKnown>>

\* socket.on('save-snapshot')
HandleSaveSnapshot(c) ==
    /\ Incoming(c, "save-snapshot")
    /\ LET data == Head(c2s[c])
       IN  IF ~Bound(c)
           THEN UNCHANGED <<states, settled>>
           ELSE /\ states' = saveSnapshot(states, currentRoomId[c], data.canvasData, now)
                /\ settled' = afterAdditive(currentRoomId[c], data)
    /\ c2s' = [c2s EXCEPT ![c] = Tail(@)]
    /\ UNCHANGED <<now, nextOpId, callVars, serverVars, s2c, clientVars, gestureVars,
                   clearsHandled, clearsKnown>>

\* socket.on('clear-canvas')
HandleClearCanvas(c) ==
    /\ Incoming(c, "clear-canvas")
    /\ IF ~Bound(c)
       THEN UNCHANGED <<states, s2c, settled, clearsHandled>>
       ELSE /\ states' = clearOperations(states, currentRoomId[c], now)
            /\ s2c' = ioTo(s2c, sockRooms, currentRoomId[c],
                           [type |-> "canvas-cleared",
                            userId |-> currentUser[c].userId,
                            userName |-> currentUser[c].userName])
            /\ settled' = [settled EXCEPT ![currentRoomId[c]] = "clear"]
            /\ clearsHandled' = [clearsHandled EXCEPT ![currentRoomId[c]] = @ + 1]
    /\ c2s' = [c2s EXCEPT ![c] = Tail(@)]
    /\ UNCHANGED <<now, nextOpId, callVars, serverVars, clientVars, gestureVars,
                   clearsKnown>>

\* Mutant: the failure notice goes to the whole room.
HandleUndoRequest_BroadcastsFailure(c) ==
    /\ Incoming(c, "undo-request")
    /\ LET res == undo(states, currentRoomId[c], now)
       IN  IF ~Bound(c)
           THEN UNCHANGED <<states, s2c, settled>>
           ELSE /\ states' = res.states
                /\ IF ~res.ret.success
                   THEN /\ s2c' = ioTo(s2c, sockRooms, currentRoomId[c],
                                       [type |-> "undo-failed",
                                        message |-> res.ret.message])
                        /\ UNCHANGED settled
                   ELSE /\ s2c' = ioTo(s2c, sockRooms, currentRoomId[c],
                                       [type |-> "global-undo",
                                        userId |-> currentUser[c].userId,
                                        userName |-> currentUser[c].userName,
                                        canvasDataURL |-> res.ret.canvasDataURL,
                                        index |-> res.ret.index])
                        /\ settled' = [settled EXCEPT ![currentRoomId[c]] = "undo"]
    /\ c2s' = [c2s EXCEPT ![c] = Tail(@)]
    /\ UNCHANGED <<now, nextOpId, callVars, serverVars, clientVars, gestureVars,
                   clearsHandled, clearsKnown>>

\* socket.on('undo-request')
HandleUndoRequest(c) ==
    /\ Incoming(c, "undo-request")
    /\ LET res == undo(states, currentRoomId[c], now)
       IN  IF ~Bound(c)
           THEN UNCHANGED <<states, s2c, settled>>
           ELSE /\ states' = res.states
                /\ IF ~res.ret.success
                   THEN /\ s2c' = emit(s2c, c, [type |-> "undo-failed",
                                                message |-> res.ret.message])
                        /\ UNCHANGED settled
                   ELSE /\ s2c' = ioTo(s2c, sockRooms, currentRoomId[c],
                                       [type |-> "global-undo",
                                        userId |-> currentUser[c].userId,
                                        userName |-> currentUser[c].userName,
                                        canvasDataURL |-> res.ret.canvasDataURL,
                                        index |-> res.ret.index])
                        /\ settled' = [settled EXCEPT ![currentRoomId[c]] = "undo"]
    /\ c2s' = [c2s EXCEPT ![c] = Tail(@)]
    /\ UNCHANGED <<now, nextOpId, callVars, serverVars, clientVars, gestureVars,
                   clearsHandled, clearsKnown>>

\* socket.on('redo-request')
HandleRedoRequest(c) ==
    /\ Incoming(c, "redo-request")
    /\ LET res == redo(states, currentRoomId[c], now)
       IN  IF ~Bound(c)
           THEN UNCHANGED <<states, s2c, settled>>
           ELSE /\ states' = res.states
                /\ IF ~res.ret.success
                   THEN /\ s2c' = emit(s2c, c, [type |-> "redo-failed",
                                                message |-> res.ret.message])
                        /\ UNCHANGED settled
                   ELSE /\ s2c' = ioTo(s2c, sockRooms, currentRoomId[c],
                                       [type |-> "global-redo",
                                        userId |-> currentUser[c].userId,
                                        userName |-> currentUser[c].userName,
                                        canvasDataURL |-> res.ret.canvasDataURL,
                                        index |-> res.ret.index])
                        /\ settled' = [settled EXCEPT ![currentRoomId[c]] = "redo"]
    /\ c2s' = [c2s EXCEPT ![c] = Tail(@)]
    /\ UNCHANGED <<now, nextOpId, callVars, serverVars, clientVars, gestureVars,
                   clearsHandled, clearsKnown>>

\* socket.on('cursor-move')
HandleCursorMove(c) ==
    /\ Incoming(c, "cursor-move")
    /\ LET data == Head(c2s[c])
       IN  IF ~Bound(c)
           THEN UNCHANGED s2c
           ELSE s2c' = socketTo(s2c, sockRooms, c, currentRoomId[c],
                                [type |-> "user-cursor",
                                 userId |-> currentUser[c].userId,
                                 userName |-> currentUser[c].userName,
                                 color |-> currentUser[c].color,
                                 x |-> data.x,
                                 y |-> data.y])
    /\ c2s' = [c2s EXCEPT ![c] = Tail(@)]
    /\ UNCHANGED <<dsmVars, callVars, serverVars, clientVars, gestureVars, historyVars>>

\* ------------------------------------------------------------------------
\* SpecClearSync, SpecUndoSync: clients, channels and server handlers.
\* SpecClearSync has the Clear button, SpecUndoSync the Undo and Redo buttons.
\* ------------------------------------------------------------------------
InitSync ==
    /\ InitManagers
    /\ InitConnections
    /\ InitClients
    /\ InitCalls

NextClearSync ==
    \/ \E c \in Conns : ClientConnect(c)
    \/ \E c \in Conns : StartDrawing(c)
    \/ \E c \in Conns : Draw(c)
    \/ \E c \in Conns : StopDrawing(c)
    \/ \E c \in Conns : Deliver(c)
    \/ \E c \in Conns : ImageOnload(c)
    \/ \E c \in Conns : HandleJoinRoom(c)
    \/ \E c \in Conns : HandleDraw(c)
    \/ \E c \in Conns : HandleSaveSnapshot(c)
    \/ \E c \in Conns : ClickClear(c)
    \/ \E c \in Conns : HandleClearCanvas(c)

SpecClearSync == InitSync /\ [][NextClearSync]_vars

NextUndoSync ==
    \/ \E c \in Conns : ClientConnect(c)
    \/ \E c \in Conns : StartDrawing(c)
    \/ \E c \in Conns : Draw(c)
    \/ \E c \in Conns : StopDrawing(c)
    \/ \E c \in Conns : Deliver(c)
    \/ \E c \in Conns : ImageOnload(c)
    \/ \E c \in Conns : HandleJoinRoom(c)
    \/ \E c \in Conns : HandleDraw(c)
    \/ \E c \in Conns : HandleSaveSnapshot(c)
    \/ \E c \in Conns : ClickUndo(c)
    \/ \E c \in Conns : ClickRedo(c)
    \/ \E c \in Conns : HandleUndoRequest(c)
    \/ \E c \in Conns : HandleRedoRequest(c)

SpecUndoSync == InitSync /\ [][NextUndoSync]_vars

\* ------------------------------------------------------------------------
\* SpecServer: the server's handlers driven by the messages of its protocol,
\* join-room messages that name a room included, with disconnects and the
\* timers of the RoomManager.
\* ------------------------------------------------------------------------
RequestKinds ==
    {"join-room", "draw", "save-snapshot", "clear-canvas", "undo-request",
     "redo-request"}

\* Messages sent so far by ClientSends.
requestsSent ==
    roomCalls.join + (nextSeg - 1) + clicks.stroke + clicks.clear + clicks.undo
        + clicks.redo

\* May another message of this kind be sent (the bounds of the model)?
maySend(kind) ==
    CASE kind = "join-room" -> roomCalls.join < MaxJoinRooms
      [] kind = "draw" -> nextSeg <= MaxSegs
      [] kind = "save-snapshot" -> clicks.stroke < MaxStrokes
      [] kind = "clear-canvas" -> clicks.clear < MaxClearClicks
      [] kind = "undo-request" -> clicks.undo < MaxUndoClicks
      [] kind = "redo-request" -> clicks.redo < MaxRedoClicks
      [] kind = "cursor-move" -> TRUE

\* The message of this kind that connection c sends.
request(c, kind, roomId) ==
    LET who == [userId |-> clientUserId(c), userName |-> clientUserName(c)]
    IN  CASE kind = "join-room" -> [type |-> kind, roomId |-> roomId] @@ who
          [] kind = "draw" ->
                [type |-> kind, seg |-> nextSeg, strokeId |-> clicks.stroke + 1,
                 knows |-> clearsKnown[c]] @@ who
          [] kind = "save-snapshot" ->
                [type |-> kind, canvasData |-> toDataURL({clicks.stroke + 1}),
                 knows |-> clearsKnown[c]] @@ who
          [] kind = "cursor-move" -> [type |-> kind, x |-> nextSeg, y |-> nextSeg]
          [] OTHER -> [type |-> kind] @@ who

\* A connected client sends a message (socket.emit on the client), one
\* message at a time: the earlier ones have been handled and answered.
ClientSends(c, kind, roomId) ==
    /\ isConnected[c]
    /\ \A d \in Conns : c2s[d] = << >> /\ s2c[d] = << >>
    /\ requestsSent < MaxRequests
    /\ maySend(kind)
    /\ kind /= "join-room" => roomId = defaultRoomId
    /\ c2s' = emit(c2s, c, request(c, kind, roomId))
    /\ roomCalls' = IF kind = "join-room"
                    THEN [roomCalls EXCEPT !.join = @ + 1]
                    ELSE roomCalls
    /\ nextSeg' = IF kind = "draw" THEN nextSeg + 1 ELSE nextSeg
    /\ clicks' = CASE kind = "save-snapshot" -> [clicks EXCEPT !.stroke = @ + 1]
                   [] kind = "clear-canvas" -> [clicks EXCEPT !.clear = @ + 1]
                   [] kind = "undo-request" -> [clicks EXCEPT !.undo = @ + 1]
                   [] kind = "redo-request" -> [clicks EXCEPT !.redo = @ + 1]
                   [] OTHER -> clicks
    /\ UNCHANGED <<dsmVars, result, nSnap, nUndoRedo, serverVars, s2c, clientVars,
                   historyVars>>

\* Every client has taken the messages the server sent it.
ClientsReceive ==
    /\ \E c \in Conns : s2c[c] /= << >>
    /\ s2c' = [c \in Conns |-> << >>]
    /\ UNCHANGED <<dsmVars, callVars, serverVars, c2s, clientVars, gestureVars,
                   historyVars>>

\* socket.on('disconnect'), once the messages the client sent are handled.
\* socket.io has taken the socket out of its rooms when the handler runs; the
\* closure of the connection is gone with it, and the client may connect
\* again as a new connection.
HandleDisconnect(c) ==
    /\ isConnected[c]
    /\ c2s[c] = << >>
    /\ roomCalls.leave < MaxDisconnects
    /\ Len(timers) < MaxTimers
    /\ LET SR == [sockRooms EXCEPT ![c] = {}]
           Q == [s2c EXCEPT ![c] = << >>]
           roomId == currentRoomId[c]
           removed == removeUserFromRoom(rooms, timers, roomId,
                                        currentUser[c].userId, now)
           q1 == ioTo(Q, SR, roomId, [type |-> "user-left",
                                      userId |-> currentUser[c].userId,
                                      userName |-> currentUser[c].userName])
           q2 == ioTo(q1, SR, roomId,
                      [type |-> "users-update",
                       users |-> getUsersInRoom(removed.rooms, roomId)])
       IN  IF ~Bound(c)
           THEN /\ s2c' = Q
                /\ UNCHANGED <<rooms, timers>>
           ELSE /\ rooms' = removed.rooms
                /\ timers' = removed.timers
                /\ s2c' = q2
    /\ sockRooms' = [sockRooms EXCEPT ![c] = {}]
    /\ currentUser' = [currentUser EXCEPT ![c] = Null]
    /\ currentRoomId' = [currentRoomId EXCEPT ![c] = defaultRoomId]
    /\ isConnected' = [isConnected EXCEPT ![c] = FALSE]
    /\ roomCalls' = [roomCalls EXCEPT !.leave = @ + 1]
    /\ UNCHANGED <<dsmVars, result, nSnap, nUndoRedo, nextObj, c2s, userColor, cursorVars,
                   canvas, loading, isDrawing, currentStrokeId, gestureVars, historyVars>>

NextServer ==
    \/ \E c \in Conns : ClientConnect(c)
    \/ \E c \in Conns, kind \in RequestKinds, roomId \in RoomIds :
          ClientSends(c, kind, roomId)
    \/ ClientsReceive
    \/ \E c \in Conns : HandleJoinRoom(c)
    \/ \E c \in Conns : HandleDraw(c)
    \/ \E c \in Conns : HandleSaveSnapshot(c)
    \/ \E c \in Conns : HandleClearCanvas(c)
    \/ \E c \in Conns : HandleUndoRequest(c)
    \/ \E c \in Conns : HandleRedoRequest(c)
    \/ \E c \in Conns : HandleDisconnect(c)
    \/ TimerFires

SpecServer == InitSync /\ [][NextServer]_vars

\* ------------------------------------------------------------------------
\* SpecMidStroke: clients draw and complete strokes, and a connection may drop
\* at any moment, in the middle of a stroke too.
\* ------------------------------------------------------------------------
NextMidStroke ==
    \/ \E c \in Conns : ClientConnect(c)
    \/ \E c \in Conns : StartDrawing(c)
    \/ \E c \in Conns : Draw(c)
    \/ \E c \in Conns : StopDrawing(c)
    \/ \E c \in Conns : Deliver(c)
    \/ \E c \in Conns : ImageOnload(c)
    \/ \E c \in Conns : HandleJoinRoom(c)
    \/ \E c \in Conns : HandleDraw(c)
    \/ \E c \in Conns : HandleSaveSnapshot(c)
    \/ \E c \in Conns : HandleDisconnect(c)

SpecMidStroke == InitSync /\ [][NextMidStroke]_vars

\* ------------------------------------------------------------------------
\* SpecFull: the default room is filled to its capacity by join-room messages
\* with further user ids; clients join, and clear, undo and redo.
\* ------------------------------------------------------------------------
\* A connected client sends join-room with the next user id not used so far.
ClientJoinsAs(c) ==
    /\ isConnected[c]
    /\ \A d \in Conns : c2s[d] = << >> /\ s2c[d] = << >>
    /\ roomCalls.rejoin < MaxFillJoins
    /\ LET userId == colorUser(roomCalls.rejoin + Cardinality(Conns) + 1)
       IN  c2s' = emit(c2s, c, [type |-> "join-room", userId |-> userId,
                                userName |-> userId, roomId |-> ""])
    /\ roomCalls' = [roomCalls EXCEPT !.rejoin = @ + 1]
    /\ UNCHANGED <<dsmVars, result, nSnap, nUndoRedo, serverVars, s2c, clientVars,
                   gestureVars, historyVars>>

FullKinds == {"save-snapshot", "clear-canvas", "undo-request", "redo-request"}

NextFull ==
    \/ \E c \in Conns : ClientConnect(c)
    \/ ClientJoinsAs("c1")
    \/ \E kind \in FullKinds : ClientSends("c2", kind, defaultRoomId)
    \/ ClientsReceive
    \/ \E c \in Conns : HandleJoinRoom(c)
    \/ \E c \in Conns : HandleSaveSnapshot(c)
    \/ \E c \in Conns : HandleClearCanvas(c)
    \/ \E c \in Conns : HandleUndoRequest(c)
    \/ \E c \in Conns : HandleRedoRequest(c)

SpecFull == InitSync /\ [][NextFull]_vars

\* ------------------------------------------------------------------------
\* SpecCross: a client that is a member of one room sends messages of every
\* kind, join-room messages that name a room included, while the default room
\* is filled to its capacity.
\* ------------------------------------------------------------------------
CrossKinds == RequestKinds \cup {"cursor-move"}

\* The default room is filled before the client sends its requests.
FillsRoom == requestsSent = 0 /\ ClientJoinsAs("c1")

\* The client connects, and sends its requests, while no further user has
\* joined the default room, or when all of them have.
CrossConnects(c) ==
    /\ c = "c2" => roomCalls.rejoin \in {0, MaxFillJoins}
    /\ ClientConnect(c)

CrossSends(kind, roomId) ==
    /\ roomCalls.rejoin \in {0, MaxFillJoins}
    /\ ClientSends("c2", kind, roomId)

NextCross ==
    \/ \E c \in Conns : CrossConnects(c)
    \/ FillsRoom
    \/ \E kind \in CrossKinds, roomId \in RoomIds : CrossSends(kind, roomId)
    \/ ClientsReceive
    \/ \E c \in Conns : HandleJoinRoom(c)
    \/ \E c \in Conns : HandleDraw(c)
    \/ \E c \in Conns : HandleSaveSnapshot(c)
    \/ \E c \in Conns : HandleClearCanvas(c)
    \/ \E c \in Conns : HandleUndoRequest(c)
    \/ \E c \in Conns : HandleRedoRequest(c)
    \/ \E c \in Conns : HandleCursorMove(c)
    \/ \E c \in Conns : HandleDisconnect(c)

SpecCross == InitSync /\ [][NextCross]_vars

\* ------------------------------------------------------------------------
\* SpecCursor: clients connect, move the mouse over the canvas at any moment
\* and disconnect, while time passes; a timer may run late.
\* ------------------------------------------------------------------------
ThrottleStep == CURSOR_THROTTLE \div 2

ThrottleTimePasses ==
    /\ now < MaxThrottleSteps * ThrottleStep
    /\ now' = now + ThrottleStep
    /\ UNCHANGED <<states, nextOpId, callVars, syncVars>>

NextCursor ==
    \/ \E c \in Conns : ClientConnect(c)
    \/ \E c \in Conns : MovesCursor(c)
    \/ \E c \in Conns : ThrottleExpires(c)
    \/ ThrottleTimePasses
    \/ ClientsReceive
    \/ \E c \in Conns : HandleJoinRoom(c)
    \/ \E c \in Conns : HandleCursorMove(c)
    \/ \E c \in Conns : HandleDisconnect(c)

SpecCursor == InitSync /\ [][NextCursor]_vars

\* ------------------------------------------------------------------------
\* SpecSameId: connections send join-room with a user id of their choice (the
\* server takes the id from the message), the id of another connection
\* included; they draw, and disconnect.
\* ------------------------------------------------------------------------
SameIdUsers == {clientUserId(c) : c \in Conns}

\* A connected client sends join-room with the given user id.
JoinsWithId(c, userId) ==
    /\ isConnected[c]
    /\ \A d \in Conns : c2s[d] = << >> /\ s2c[d] = << >>
    /\ roomCalls.join < MaxJoinRooms
    /\ c2s' = emit(c2s, c, [type |-> "join-room", userId |-> userId,
                            userName |-> userId, roomId |-> ""])
    /\ roomCalls' = [roomCalls EXCEPT !.join = @ + 1]
    /\ UNCHANGED <<dsmVars, result, nSnap, nUndoRedo, serverVars, s2c, clientVars,
                   gestureVars, historyVars>>

SameIdKinds == {"draw"}

NextSameId ==
    \/ \E c \in Conns : ClientConnect(c)
    \/ \E c \in Conns, userId \in SameIdUsers : JoinsWithId(c, userId)
    \/ \E c \in Conns, kind \in SameIdKinds : ClientSends(c, kind, defaultRoomId)
    \/ ClientsReceive
    \/ \E c \in Conns : HandleJoinRoom(c)
    \/ \E c \in Conns : HandleDraw(c)
    \/ \E c \in Conns : HandleDisconnect(c)

SpecSameId == InitSync /\ [][NextSameId]_vars

\* ------------------------------------------------------------------------
\* SpecForge: a connection sends join-room and draw messages with user ids of
\* its choice, while the default room is filled to its capacity.
\* ------------------------------------------------------------------------
\* A connected client sends a draw whose payload names the given user.
SendsDrawAs(c, userId) ==
    /\ isConnected[c]
    /\ \A d \in Conns : c2s[d] = << >> /\ s2c[d] = << >>
    /\ nextSeg <= MaxSegs
    /\ c2s' = emit(c2s, c, [type |-> "draw", seg |-> nextSeg,
                            strokeId |-> clicks.stroke + 1,
                            knows |-> clearsKnown[c],
                            userId |-> userId, userName |-> userId])
    /\ nextSeg' = nextSeg + 1
    /\ UNCHANGED <<dsmVars, callVars, serverVars, s2c, clientVars, clicks, historyVars>>

\* The second connection is opened after the first, while no further user
\* has joined the default room or when all of them have; it sends its
\* messages then too.
ForgeConnects(c) ==
    /\ c = "c2" => isConnected["c1"] /\ roomCalls.rejoin \in {0, MaxFillJoins}
    /\ ClientConnect(c)

ForgeJoins(userId) ==
    /\ roomCalls.rejoin \in {0, MaxFillJoins}
    /\ JoinsWithId("c2", userId)

ForgeDraws(userId) ==
    /\ roomCalls.rejoin \in {0, MaxFillJoins}
    /\ SendsDrawAs("c2", userId)

NextForge ==
    \/ \E c \in Conns : ForgeConnects(c)
    \/ FillsRoom
    \/ \E userId \in SameIdUsers : ForgeJoins(userId)
    \/ \E userId \in SameIdUsers : ForgeDraws(userId)
    \/ ClientsReceive
    \/ \E c \in Conns : HandleJoinRoom(c)
    \/ \E c \in Conns : HandleDraw(c)

SpecForge == InitSync /\ [][NextForge]_vars

\* ------------------------------------------------------------------------
\* SpecTwoUndos: clients push snapshots and ask for undo without waiting for
\* each other, so that undo-requests of both are pending at the same time; the
\* messages the server sent stay in the queues.
\* ------------------------------------------------------------------------
\* saveCanvasSnapshot: the client sends a snapshot, its earlier messages
\* handled.
PushesSnapshot(c) ==
    /\ isConnected[c]
    /\ c2s[c] = << >>
    /\ clicks.stroke < MaxUndoSnaps
    /\ c2s' = emit(c2s, c, request(c, "save-snapshot", defaultRoomId))
    /\ clicks' = [clicks EXCEPT !.stroke = @ + 1]
    /\ UNCHANGED <<dsmVars, callVars, serverVars, s2c, clientVars, nextSeg,
                   historyVars>>

\* emitUndo: the client asks for an undo, its earlier messages handled.
RequestsUndo(c) ==
    /\ isConnected[c]
    /\ c2s[c] = << >>
    /\ clicks.undo < MaxPendingUndos
    /\ c2s' = emit(c2s, c, request(c, "undo-request", defaultRoomId))
    /\ clicks' = [clicks EXCEPT !.undo = @ + 1]
    /\ UNCHANGED <<dsmVars, callVars, serverVars, s2c, clientVars, nextSeg,
                   historyVars>>

NextTwoUndos ==
    \/ \E c \in Conns : ClientConnect(c)
    \/ \E c \in Conns : PushesSnapshot(c)
    \/ \E c \in Conns : RequestsUndo(c)
    \/ \E c \in Conns : HandleJoinRoom(c)
    \/ \E c \in Conns : HandleSaveSnapshot(c)
    \/ \E c \in Conns : HandleUndoRequest(c)

SpecTwoUndos == InitSync /\ [][NextTwoUndos]_vars

\* ------------------------------------------------------------------------
\* SpecSweep: clients join, push snapshots and clear while time passes and
\* the periodic cleanup runs.
\* ------------------------------------------------------------------------
\* The setInterval callback of server.js: due at every multiple of
\* CLEANUP_INTERVAL after the start of the server.
PeriodicCleanup ==
    /\ now % CLEANUP_INTERVAL = 0
    /\ CallCleanup(CLEANUP_MAX_AGE)

SweepKinds == {"save-snapshot", "clear-canvas"}

NextSweep ==
    \/ \E c \in Conns : ClientConnect(c)
    \/ \E c \in Conns, kind \in SweepKinds : ClientSends(c, kind, defaultRoomId)
    \/ ClientsReceive
    \/ \E c \in Conns : HandleJoinRoom(c)
    \/ \E c \in Conns : HandleSaveSnapshot(c)
    \/ \E c \in Conns : HandleClearCanvas(c)
    \/ now < MaxHalfDays * HalfDay /\ TimePasses(HalfDay)
    \/ PeriodicCleanup

SpecSweep == InitSync /\ [][NextSweep]_vars

\* ------------------------------------------------------------------------
\* Properties of the snapshot history (checked under SpecHist)
\* ------------------------------------------------------------------------
\* What a room's history is before a call: the stored state, or the empty
\* state getState creates on first access.
HistoryOf(S, roomId) == IF roomId \in DOMAIN S THEN S[roomId].history ELSE <<>>

CursorOf(S, roomId) == IF roomId \in DOMAIN S THEN S[roomId].historyIndex ELSE -1

OperationsOf(S, roomId) == IF roomId \in DOMAIN S THEN S[roomId].operations ELSE <<>>

DataURLsOf(h) == {h[i].dataURL : i \in 1..Len(h)}

\* C1: in every reachable state the cursor of every session satisfies
\* -1 <= historyIndex <= length(history) - 1.
C1_CursorInRange ==
    \A roomId \in DOMAIN states :
        /\ -1 <= states[roomId].historyIndex
        /\ states[roomId].historyIndex <= Len(states[roomId].history) - 1

\* C1 witness: a full history whose cursor was moved back after the cap
\* had evicted.
C1_Witness ==
    /\ defaultRoomId \in DOMAIN states
    /\ Len(states[defaultRoomId].history) = MAX_HISTORY
    /\ states[defaultRoomId].historyIndex = MAX_HISTORY - 3
    /\ nSnap > MAX_HISTORY

\* C2: the history never holds more than 20 snapshots; a saveSnapshot on a
\* full history whose cursor is at the tail drops exactly the oldest entry,
\* keeps the others in order, and leaves the cursor on the snapshot it pushed
\* (one below the index the push first gave it).
C2_CapacityLaw ==
    /\ [](\A roomId \in DOMAIN states : Len(states[roomId].history) <= MAX_HISTORY)
    /\ [][\A roomId \in HistRooms :
            (/\ CallSaveSnapshot(roomId)
             /\ Len(HistoryOf(states, roomId)) = MAX_HISTORY
             /\ CursorOf(states, roomId) = MAX_HISTORY - 1)
            => /\ Len(states'[roomId].history) = MAX_HISTORY
               /\ SubSeq(states'[roomId].history, 1, MAX_HISTORY - 1)
                    = Tail(states[roomId].history)
               /\ states'[roomId].history[MAX_HISTORY].dataURL = toDataURL({nSnap'})
               /\ states'[roomId].historyIndex = (MAX_HISTORY + 1 - 1) - 1
               /\ states'[roomId].historyIndex = CursorOf(states, roomId)]_vars

\* C2 witness: 21 pushes in a row: 20 entries, the first one gone, cursor 19.
C2_Witness ==
    /\ defaultRoomId \in DOMAIN states
    /\ nSnap = MAX_HISTORY + 1
    /\ result.op = "saveSnapshot"
    /\ Len(states[defaultRoomId].history) = MAX_HISTORY
    /\ states[defaultRoomId].history[1].dataURL = toDataURL({2})
    /\ states[defaultRoomId].history[MAX_HISTORY].dataURL = toDataURL({MAX_HISTORY + 1})
    /\ states[defaultRoomId].historyIndex = MAX_HISTORY - 1

\* C3: a saveSnapshot with the cursor before the tail leaves
\* history[0..cursor] followed by the new snapshot, with the cursor on it;
\* afterwards no step brings a snapshot back into the history except the one
\* a push adds, and undo/redo return only snapshots of the history, so that a
\* discarded snapshot is never returned again.
C3_TruncateThenAppend ==
    [][\A roomId \in HistRooms :
        /\ (/\ CallSaveSnapshot(roomId)
            /\ CursorOf(states, roomId) < Len(HistoryOf(states, roomId)) - 1)
           => /\ states'[roomId].history
                    = Append(SubSeq(HistoryOf(states, roomId), 1, CursorOf(states, roomId) + 1),
                             [dataURL |-> toDataURL({nSnap'}), timestamp |-> now])
              /\ states'[roomId].historyIndex = CursorOf(states, roomId) + 1
              /\ \A i \in (CursorOf(states, roomId) + 2)..Len(HistoryOf(states, roomId)) :
                    states[roomId].history[i].dataURL \notin DataURLsOf(states'[roomId].history)
        /\ CallSaveSnapshot(roomId)
           => DataURLsOf(states'[roomId].history)
                \subseteq DataURLsOf(HistoryOf(states, roomId)) \cup {toDataURL({nSnap'})}
        /\ (~CallSaveSnapshot(roomId) /\ roomId \in DOMAIN states')
           => DataURLsOf(states'[roomId].history) \subseteq DataURLsOf(HistoryOf(states, roomId))
        /\ ((CallUndo(roomId) \/ CallRedo(roomId)) /\ result'.ret.success)
           => result'.ret.canvasDataURL \in DataURLsOf(states'[roomId].history)]_vars

\* C3 witness: [1,2,3,4] with the cursor on 2, then a push of 5: [1,2,5],
\* cursor 2.
C3_Witness ==
    /\ defaultRoomId \in DOMAIN states
    /\ result.op = "saveSnapshot"
    /\ nSnap = 5
    /\ nUndoRedo = 2
    /\ states[defaultRoomId].history =
          << [dataURL |-> toDataURL({1}), timestamp |-> 0],
             [dataURL |-> toDataURL({2}), timestamp |-> 0],
             [dataURL |-> toDataURL({5}), timestamp |-> 0] >>
    /\ states[defaultRoomId].historyIndex = 2

\* C4: undo fails exactly when the cursor is <= 0; a failing undo returns
\* {success: false, message: 'Nothing to undo'} and leaves the cursor, the
\* snapshots and the operation log as they were.
C4_UndoFailure ==
    [][\A roomId \in HistRooms :
        CallUndo(roomId)
        => /\ (CursorOf(states, roomId) <= 0) <=> ~result'.ret.success
           /\ ~result'.ret.success
              => /\ result'.ret = [success |-> FALSE, message |-> "Nothing to undo"]
                 /\ states'[roomId].historyIndex = CursorOf(states, roomId)
                 /\ states'[roomId].history = HistoryOf(states, roomId)
                 /\ states'[roomId].operations = OperationsOf(states, roomId)]_vars

\* C4 witness: an undo that failed with the cursor on the first of several
\* snapshots, the operation log not empty.
C4_Witness ==
    /\ defaultRoomId \in DOMAIN states
    /\ result.op = "undo"
    /\ ~result.ret.success
    /\ states[defaultRoomId].historyIndex = 0
    /\ Len(states[defaultRoomId].history) = 2
    /\ Len(states[defaultRoomId].operations) = 1

\* C5: redo fails exactly when the cursor is >= length(history) - 1; a
\* failing redo returns {success: false, message: 'Nothing to redo'} and
\* leaves the cursor, the snapshots and the operation log as they were.
C5_RedoFailure ==
    [][\A roomId \in HistRooms :
        CallRedo(roomId)
        => /\ (CursorOf(states, roomId) >= Len(HistoryOf(states, roomId)) - 1)
                <=> ~result'.ret.success
           /\ ~result'.ret.success
              => /\ result'.ret = [success |-> FALSE, message |-> "Nothing to redo"]
                 /\ states'[roomId].historyIndex = CursorOf(states, roomId)
                 /\ states'[roomId].history = HistoryOf(states, roomId)
                 /\ states'[roomId].operations = OperationsOf(states, roomId)]_vars

\* C5 witness: a redo that failed with the cursor on the last of several
\* snapshots, the operation log not empty.
C5_Witness ==
    /\ defaultRoomId \in DOMAIN states
    /\ result.op = "redo"
    /\ ~result.ret.success
    /\ states[defaultRoomId].historyIndex = 2
    /\ Len(states[defaultRoomId].history) = 3
    /\ Len(states[defaultRoomId].operations) = 1

\* C6: a successful undo lowers the cursor by exactly 1, a successful redo
\* raises it by exactly 1; each returns the snapshot stored at the new cursor
\* and the new cursor value, and leaves the snapshot sequence unchanged.
C6_UndoRedoStep ==
    [][\A roomId \in HistRooms :
        /\ (CallUndo(roomId) /\ result'.ret.success)
           => /\ states'[roomId].historyIndex = states[roomId].historyIndex - 1
              /\ result'.ret.index = states[roomId].historyIndex - 1
              /\ result'.ret.canvasDataURL
                    = states[roomId].history[(states[roomId].historyIndex - 1) + 1].dataURL
              /\ states'[roomId].history = states[roomId].history
        /\ (CallRedo(roomId) /\ result'.ret.success)
           => /\ states'[roomId].historyIndex = states[roomId].historyIndex + 1
              /\ result'.ret.index = states[roomId].historyIndex + 1
              /\ result'.ret.canvasDataURL
                    = states[roomId].history[(states[roomId].historyIndex + 1) + 1].dataURL
              /\ states'[roomId].history = states[roomId].history]_vars

\* C6 witness: S1, S2, S3 pushed, two undos: the second returned S1 with
\* cursor 0.
C6_Witness ==
    /\ defaultRoomId \in DOMAIN states
    /\ nSnap = 3
    /\ nUndoRedo = 2
    /\ Len(states[defaultRoomId].history) = 3
    /\ result = [op |-> "undo", roomId |-> defaultRoomId,
                 ret |-> [success |-> TRUE, canvasDataURL |-> toDataURL({1}), index |-> 0]]

\* C7: from every reachable history and cursor c with 1 <= c <= length - 1,
\* undo followed at once by redo succeeds twice, restores cursor c, returns
\* from the redo the snapshot that was current before the undo, and leaves
\* the snapshot sequence unchanged.
C7_UndoRedoRoundTrip ==
    \A roomId \in DOMAIN states :
        LET c == states[roomId].historyIndex
            u == undo(states, roomId, now)
            v == redo(u.states, roomId, now)
        IN  (1 <= c /\ c <= Len(states[roomId].history) - 1)
            => /\ u.ret.success
               /\ v.ret.success
               /\ v.states[roomId].historyIndex = c
               /\ v.ret.index = c
               /\ v.ret.canvasDataURL = states[roomId].history[c + 1].dataURL
               /\ v.states[roomId].history = states[roomId].history

\* C7 witness: an undo and then a redo were called on [1,2,3,4] from an
\* interior cursor (on 3, after one earlier undo); the redo returned 3.
C7_Witness ==
    /\ defaultRoomId \in DOMAIN states
    /\ nSnap = 4
    /\ nUndoRedo = 3
    /\ nextOpId = 1
    /\ Len(states[defaultRoomId].history) = 4
    /\ states[defaultRoomId].historyIndex = 2
    /\ result = [op |-> "redo", roomId |-> defaultRoomId,
                 ret |-> [success |-> TRUE, canvasDataURL |-> toDataURL({3}), index |-> 2]]

\* C8: clearOperations, from any state, sets the cursor to -1 and empties the
\* snapshot history and the operation log, so that right after it undo
\* fails, redo fails and getCurrentSnapshot returns null.
C8_ClearResets ==
    [][\A roomId \in HistRooms :
        CallClearOperations(roomId)
        => /\ states'[roomId].historyIndex = -1
           /\ states'[roomId].history = <<>>
           /\ states'[roomId].operations = <<>>
           /\ ~undo(states', roomId, now').ret.success
           /\ ~redo(states', roomId, now').ret.success
           /\ getCurrentSnapshot(states', roomId, now').ret = Null]_vars

\* C8 witness: a clear was called on a history of several snapshots with an
\* interior cursor and a non-empty operation log.
C8_Witness ==
    /\ defaultRoomId \in DOMAIN states
    /\ result.op = "clearOperations"
    /\ nSnap = 3
    /\ nUndoRedo = 1
    /\ nextOpId = 2
    /\ states[defaultRoomId].history = <<>>
    /\ states[defaultRoomId].operations = <<>>
    /\ states[defaultRoomId].historyIndex = -1

\* The states map with the operation log of one room emptied.
WithoutLog(S, roomId) == [S EXCEPT ![roomId].operations = <<>>]

\* C31: the operation log and the snapshot history are independent except
\* for clear: addOperation leaves the snapshot sequence and the cursor
\* unchanged; saveSnapshot, undo and redo leave the operation log unchanged;
\* what undo and redo return, and the cursor they leave, are the same
\* whatever the operation log holds.
C31_LogAndHistoryIndependent ==
    /\ [][\A roomId \in HistRooms :
            /\ CallAddOperation(roomId)
               => /\ states'[roomId].history = HistoryOf(states, roomId)
                  /\ states'[roomId].historyIndex = CursorOf(states, roomId)
            /\ (CallSaveSnapshot(roomId) \/ CallUndo(roomId) \/ CallRedo(roomId))
               => states'[roomId].operations = OperationsOf(states, roomId)]_vars
    /\ [](\A roomId \in DOMAIN states :
            /\ undo(WithoutLog(states, roomId), roomId, now).ret
                  = undo(states, roomId, now).ret
            /\ undo(WithoutLog(states, roomId), roomId, now).states[roomId].historyIndex
                  = undo(states, roomId, now).states[roomId].historyIndex
            /\ redo(WithoutLog(states, roomId), roomId, now).ret
                  = redo(states, roomId, now).ret
            /\ redo(WithoutLog(states, roomId), roomId, now).states[roomId].historyIndex
                  = redo(states, roomId, now).states[roomId].historyIndex)

\* C31 witness: an operation was logged, three snapshots pushed and one
\* undone; the log still holds the operation.
C31_Witness ==
    /\ defaultRoomId \in DOMAIN states
    /\ nSnap = 3
    /\ nextOpId = 2
    /\ result.op = "undo"
    /\ result.ret.success
    /\ states[defaultRoomId].historyIndex = 1
    /\ Len(states[defaultRoomId].history) = 3
    /\ Len(states[defaultRoomId].operations) = 1

\* C38: once the cursor of a session is >= 0 it stays >= 0 through every
\* saveSnapshot (those that evict at the 20-entry cap included), undo and
\* redo, until the next clear; an undo never returns anything but a snapshot
\* of the history, and with the cursor at -1 (after a clear) it fails and
\* leaves the cursor there.
C38_CursorStaysOnASnapshot ==
    [][\A roomId \in HistRooms :
        /\ (CursorOf(states, roomId) >= 0 /\ ~CallClearOperations(roomId))
           => CursorOf(states', roomId) >= 0
        /\ (CallUndo(roomId) /\ result'.ret.success)
           => result'.ret.canvasDataURL \in DataURLsOf(HistoryOf(states, roomId))
        /\ (CallUndo(roomId) /\ CursorOf(states, roomId) = -1)
           => /\ ~result'.ret.success
              /\ CursorOf(states', roomId) = -1]_vars

\* C38 witness: after 21 pushes (the cap evicted once) and a clear, one
\* snapshot was pushed and an undo was refused with the cursor on it.
C38_Witness ==
    /\ defaultRoomId \in DOMAIN states
    /\ nSnap = MAX_HISTORY + 2
    /\ result.op = "undo"
    /\ ~result.ret.success
    /\ states[defaultRoomId].historyIndex = 0
    /\ Len(states[defaultRoomId].history) = 1

\* ------------------------------------------------------------------------
\* The operation log (checked under SpecOps)
\* ------------------------------------------------------------------------
\* C19: the operation log never holds more than 500 operations; addOperation
\* appends at the tail and, when the log would exceed 500, removes exactly the
\* oldest entry, so the log is the most recent (at most 500) operations
\* recorded, in the order they were handled.
C19_LogCapacityFifo ==
    /\ [](\A roomId \in HistRooms :
            LET ops == OperationsOf(states, roomId)
            IN  /\ Len(ops) <= MAX_OPERATIONS
                /\ \A i \in 1..Len(ops) :
                      ops[i].operationId = nextOpId - 1 - Len(ops) + i)
    /\ [][\A roomId \in HistRooms :
            CallAddOperationToLog(roomId) =>
                LET old == OperationsOf(states, roomId)
                    new == OperationsOf(states', roomId)
                IN  /\ result'.ret.operationId = nextOpId
                    /\ new = IF Len(old) < MAX_OPERATIONS
                             THEN Append(old, result'.ret)
                             ELSE Append(Tail(old), result'.ret)]_vars

C19_Witness ==
    /\ result.op = "addOperation"
    /\ Len(OperationsOf(states, defaultRoomId)) = MAX_OPERATIONS
    /\ OperationsOf(states, defaultRoomId)[1].operationId = 3

\* ------------------------------------------------------------------------
\* The room registry (checked under SpecRooms)
\* ------------------------------------------------------------------------
\* C15: in every reachable state the members of a session have distinct ids
\* and are at most maxUsers (50 unless the room was created with another
\* capacity); addUserToRoom returns false and adds nobody when the member count
\* has reached the capacity.
C15_MembersUniqueAndCapped ==
    /\ [](\A roomId \in DOMAIN rooms :
            LET users == rooms[roomId].users
            IN  /\ Len(users) <= rooms[roomId].maxUsers
                /\ \A i, j \in 1..Len(users) :
                      users[i].userId = users[j].userId => i = j)
    /\ [][\A roomId \in RoomIds, userId \in RoomUsers, rnd \in SyncRandoms :
            (/\ CallAddUserToRoom(roomId, userId, rnd)
             /\ roomId \in DOMAIN rooms
             /\ Len(rooms[roomId].users) >= rooms[roomId].maxUsers)
                => result'.ret = FALSE /\ rooms' = rooms]_vars

C15_Witness ==
    /\ result.op = "addUserToRoom"
    /\ result.ret = FALSE
    /\ result.roomId \in DOMAIN rooms
    /\ Len(rooms[result.roomId].users) = rooms[result.roomId].maxUsers
    /\ result.userId \notin MemberIdsOf(rooms, result.roomId)

\* C17: the default session exists in every reachable state: deleteRoom on it
\* returns false and removes nothing, and no leave that empties it and no timer
\* removes it; deleteRoom removes another session only when it has no member.
C17_DefaultRoomStays ==
    /\ [](defaultRoomId \in DOMAIN rooms)
    /\ [][\A roomId \in RoomIds :
            CallDeleteRoom(roomId) =>
                IF roomId /= defaultRoomId /\ roomId \in DOMAIN rooms
                   /\ Len(rooms[roomId].users) = 0
                THEN /\ result'.ret = TRUE
                     /\ DOMAIN rooms' = (DOMAIN rooms) \ {roomId}
                     /\ \A r \in DOMAIN rooms' : rooms'[r] = rooms[r]
                ELSE /\ result'.ret = FALSE
                     /\ rooms' = rooms]_vars

C17_Witness ==
    /\ result.op = "deleteRoom"
    /\ result.roomId = defaultRoomId
    /\ result.ret = FALSE
    /\ Len(rooms[defaultRoomId].users) = 0
    /\ nextObj > 1

\* C18: a session is never removed from the registry while it has a member:
\* when a timer set by an emptying leave runs after another member has joined
\* (also with several timers pending, or with the session deleted and created
\* again in between), the session and its members stay as they are.
C18_NoDeletionWhileOccupied ==
    /\ [][\A roomId \in DOMAIN rooms :
            Len(rooms[roomId].users) > 0 => roomId \in DOMAIN rooms']_vars
    /\ [][TimerFires =>
            \A roomId \in DOMAIN rooms :
                Len(rooms[roomId].users) > 0 =>
                    roomId \in DOMAIN rooms' /\ rooms'[roomId] = rooms[roomId]]_vars

\* A timer set for an earlier room object has run while the room, created again
\* since, has a member.
C18_Witness ==
    /\ result.op = "timer"
    /\ result.roomId \in DOMAIN rooms
    /\ rooms[result.roomId].obj /= result.obj
    /\ Len(rooms[result.roomId].users) > 0

\* ------------------------------------------------------------------------
\* The grace period of an empty room (checked under SpecGrace)
\* ------------------------------------------------------------------------
\* The pending timers set for the room object registered under roomId: each
\* was set, a delay before it is due, by a leave that emptied the room.
TimersOf(roomId) ==
    {i \in 1..Len(timers) :
        timers[i].roomId = roomId /\ timers[i].obj = rooms[roomId].obj}

\* C27: a session is removed from the registry only when it has no member and
\* has had none for a full grace period: a timer set by an earlier leave does
\* not remove a session that a later leave emptied again less than a grace
\* period ago.
C27_FullGracePeriod ==
    [][TimerRuns =>
        \A roomId \in DOMAIN rooms :
            roomId \notin DOMAIN rooms' =>
                /\ Len(rooms[roomId].users) = 0
                /\ \A i \in TimersOf(roomId) :
                      now - (timers[i].due - EMPTY_ROOM_DELAY) >= EMPTY_ROOM_DELAY]_vars

\* A leave has just emptied the room.
LastMemberLeft(roomId) ==
    /\ result.op = "removeUserFromRoom"
    /\ result.roomId = roomId
    /\ roomId \in DOMAIN rooms
    /\ Len(rooms[roomId].users) = 0

\* C28: when the last member of a session other than the default one has
\* left, the session is removed from the registry in the end, unless someone
\* joins it again (the timers that were set run in the end).
C28_EmptyRoomRemoved ==
    \A roomId \in RoomIds \ {defaultRoomId} :
        LastMemberLeft(roomId) ~>
            (roomId \notin DOMAIN rooms \/ Len(rooms[roomId].users) > 0)

\* The timer of a leave has run and the room is gone.
C28_Witness ==
    /\ result.op = "timer"
    /\ result.roomId \notin DOMAIN rooms
    /\ timers = << >>

\* ------------------------------------------------------------------------
\* Colors of the members (checked under SpecColors)
\* ------------------------------------------------------------------------
\* C16: in every reachable state, after any joins and leaves, a session with
\* at most as many members as the palette has colors (16) has no two members
\* with the same color.
C16_ColorsUnique ==
    \A roomId \in DOMAIN rooms :
        LET users == rooms[roomId].users
        IN  Len(users) <= Len(colors) =>
                \A i, j \in 1..Len(users) :
                    users[i].color = users[j].color => i = j

\* ------------------------------------------------------------------------
\* What the handlers send, and to whom (checked under SpecServer)
\* ------------------------------------------------------------------------
\* The messages a step sends to connection d.
NewMessages(d) ==
    IF Len(s2c'[d]) >= Len(s2c[d])
    THEN SubSeq(s2c'[d], Len(s2c[d]) + 1, Len(s2c'[d]))
    ELSE << >>

\* A step only adds messages to the queue of connection d.
OnlyAdds(d) ==
    /\ Len(s2c'[d]) >= Len(s2c[d])
    /\ SubSeq(s2c'[d], 1, Len(s2c[d])) = s2c[d]

\* The connections that have joined the room.
JoinedTo(roomId) == {d \in Conns : roomId \in sockRooms[d]}

\* The room state as the DrawingStateManager's callers see it.
RoomView(S, roomId) ==
    [history |-> HistoryOf(S, roomId),
     historyIndex |-> CursorOf(S, roomId),
     operations |-> OperationsOf(S, roomId)]

\* The message of a clear, a successful undo and a successful redo of c.
destructiveNotice(c, type, ret) ==
    IF type = "canvas-cleared"
    THEN [type |-> type,
          userId |-> currentUser[c].userId,
          userName |-> currentUser[c].userName]
    ELSE [type |-> type,
          userId |-> currentUser[c].userId,
          userName |-> currentUser[c].userName,
          canvasDataURL |-> ret.canvasDataURL,
          index |-> ret.index]

\* The step sends this message to the connections that have joined the room of
\* c and to c itself, and nothing to any other connection.
SentToRoomAndSender(c, m) ==
    \A d \in Conns :
        /\ OnlyAdds(d)
        /\ NewMessages(d) = IF d = c \/ d \in JoinedTo(currentRoomId[c])
                            THEN << m >>
                            ELSE << >>

\* C11: every global-undo, global-redo and canvas-cleared message a request
\* produces is delivered to every connection joined to the requester's session,
\* the requesting connection included, and to no connection of another session.
C11_RoomIncludingSender ==
    [][\A c \in Conns :
        /\ (HandleClearCanvas(c) /\ Bound(c)) =>
                SentToRoomAndSender(c, destructiveNotice(c, "canvas-cleared", Null))
        /\ (HandleUndoRequest(c) /\ Bound(c)
            /\ undo(states, currentRoomId[c], now).ret.success) =>
                SentToRoomAndSender(c,
                    destructiveNotice(c, "global-undo",
                                      undo(states, currentRoomId[c], now).ret))
        /\ (HandleRedoRequest(c) /\ Bound(c)
            /\ redo(states, currentRoomId[c], now).ret.success) =>
                SentToRoomAndSender(c,
                    destructiveNotice(c, "global-redo",
                                      redo(states, currentRoomId[c], now).ret))]_vars

\* C14: a join-room request to a session that is full is answered with
\* join-failed to the requester only and leaves all server state unchanged: the
\* session's members and history, and the requesting connection's own bound
\* user and session.
C14_RejectedJoinChangesNothing ==
    [][\A c \in Conns :
        (HandleJoinRoom(c) /\ Len(NewMessages(c)) > 0
         /\ NewMessages(c)[1].type = "join-failed") =>
            /\ s2c' = [s2c EXCEPT ![c] = Append(@, [type |-> "join-failed"])]
            /\ rooms' = rooms
            /\ sockRooms' = sockRooms
            /\ \A r \in RoomIds : RoomView(states', r) = RoomView(states, r)
            /\ currentUser'[c] = currentUser[c]
            /\ currentRoomId'[c] = currentRoomId[c]]_vars

C13_FailureIsLocal ==
    [][\A c \in Conns :
        /\ (HandleUndoRequest(c) /\ Bound(c)
            /\ ~undo(states, currentRoomId[c], now).ret.success) =>
                /\ s2c' = [s2c EXCEPT ![c] =
                             Append(@, [type |-> "undo-failed",
                                        message |-> "Nothing to undo"])]
                /\ rooms' = rooms
                /\ \A r \in RoomIds : RoomView(states', r) = RoomView(states, r)
        /\ (HandleRedoRequest(c) /\ Bound(c)
            /\ ~redo(states, currentRoomId[c], now).ret.success) =>
                /\ s2c' = [s2c EXCEPT ![c] =
                             Append(@, [type |-> "redo-failed",
                                        message |-> "Nothing to redo"])]
                /\ rooms' = rooms
                /\ \A r \in RoomIds : RoomView(states', r) = RoomView(states, r)]_vars

\* An undo-request has failed in a room that both connections have joined and
\* that has a snapshot: the requester holds the notice, the other one nothing.
C13_Witness ==
    \E c \in Conns :
        /\ s2c[c] = << [type |-> "undo-failed", message |-> "Nothing to undo"] >>
        /\ \A d \in Conns \ {c} :
              s2c[d] = << >> /\ currentRoomId[c] \in sockRooms[d]
        /\ CursorOf(states, currentRoomId[c]) = 0

\* C20: on a successful join the joining connection is sent, in this order,
\* welcome (with its color and the session id), then canvas-state carrying
\* history[cursor] if and only if the cursor is in range (>= 0), then
\* drawing-history if and only if the operation log is not empty; canvas-state
\* and drawing-history go to the joiner only.
C20_JoinOnboarding ==
    [][\A c \in Conns :
        (HandleJoinRoom(c) /\ currentRoomId'[c] \in sockRooms'[c]) =>
            LET roomId == currentRoomId'[c]
                data == Head(c2s[c])
                cursor == CursorOf(states, roomId)
                history == HistoryOf(states, roomId)
                ops == OperationsOf(states, roomId)
                sent == NewMessages(c)
                welcome == [type |-> "welcome",
                            userId |-> data.userId,
                            userName |-> data.userName,
                            color |-> MapGet(rooms'[roomId].users, data.userId).color,
                            roomId |-> roomId]
                canvasState == IF cursor >= 0
                               THEN << [type |-> "canvas-state",
                                        canvasData |-> history[cursor + 1].dataURL] >>
                               ELSE << >>
                drawingHistory == IF Len(ops) > 0
                                  THEN << [type |-> "drawing-history",
                                           operations |-> ops] >>
                                  ELSE << >>
                onboarding == << welcome >> \o canvasState \o drawingHistory
            IN  /\ OnlyAdds(c)
                /\ Len(sent) >= Len(onboarding)
                /\ SubSeq(sent, 1, Len(onboarding)) = onboarding
                /\ \A i \in (Len(onboarding) + 1)..Len(sent) :
                      sent[i].type \notin {"welcome", "canvas-state", "drawing-history"}
                /\ \A d \in Conns \ {c} :
                      \A i \in 1..Len(NewMessages(d)) :
                          NewMessages(d)[i].type \notin
                              {"welcome", "canvas-state", "drawing-history"}]_vars

\* A connection has joined a room whose cursor is before the last snapshot and
\* whose log is not empty, with another connection in the room.
C20_Witness ==
    \E c \in Conns :
        /\ Len(s2c[c]) >= 3
        /\ s2c[c][1].type = "welcome"
        /\ s2c[c][2].type = "canvas-state"
        /\ s2c[c][3].type = "drawing-history"
        /\ CursorOf(states, s2c[c][1].roomId) < Len(HistoryOf(states, s2c[c][1].roomId)) - 1
        /\ \E d \in Conns \ {c} : s2c[c][1].roomId \in sockRooms[d]

\* ------------------------------------------------------------------------
\* The cleanup of idle histories (checked under SpecCleanup and SpecSweep)
\* ------------------------------------------------------------------------
\* C30: cleanup(maxAge) deletes a history only if its operation log is empty
\* and more than maxAge has passed since its last modification, a snapshot
\* push counting as a modification: no history that holds a snapshot pushed
\* less than maxAge ago is deleted; every history it does not delete is left
\* as it was.
C30_CleanupOnlyIdle ==
    [][CallCleanup(CLEANUP_MAX_AGE) =>
        \A roomId \in DOMAIN states :
            IF roomId \notin DOMAIN states'
            THEN /\ Len(states[roomId].operations) = 0
                 /\ now - states[roomId].metadata.lastModified > CLEANUP_MAX_AGE
                 /\ \A i \in 1..Len(states[roomId].history) :
                       now - states[roomId].history[i].timestamp >= CLEANUP_MAX_AGE
            ELSE states'[roomId] = states[roomId]]_vars

\* C24: the periodic cleanup never deletes the history of a session that has a
\* member when the sweep runs, a member whose join was handled since the
\* sweep before included: the history stays, as it was.
C24_SweepSparesOccupied ==
    [][PeriodicCleanup =>
        \A roomId \in DOMAIN states :
            (roomId \in DOMAIN rooms /\ Len(rooms[roomId].users) > 0) =>
                /\ roomId \in DOMAIN states'
                /\ states'[roomId] = states[roomId]]_vars

\* ------------------------------------------------------------------------
\* Members, undo and new rooms (checked under SpecServer)
\* ------------------------------------------------------------------------
\* The members that join-room messages of connection c added: the stored user
\* keeps the socket id of the connection.
MembersAddedBy(R, c) ==
    UNION {{<<roomId, R[roomId].users[i].userId>> :
                i \in {j \in 1..Len(R[roomId].users) :
                          R[roomId].users[j].socketId = c}} :
           roomId \in DOMAIN R}

\* C22: after the disconnect of a connection has been handled, no session has
\* a member that a join-room of this connection added, whatever join-room
\* messages the connection sent before.
C22_DisconnectRemovesMember ==
    [][\A c \in Conns :
        HandleDisconnect(c) => MembersAddedBy(rooms', c) = {}]_vars

\* The room a join-room message names.
roomNamed(data) == IF data.roomId /= "" THEN data.roomId ELSE defaultRoomId

\* C23: in a session whose history holds at least one snapshot (a stroke was
\* completed since the last clear), an undo-request of any member succeeds:
\* it is answered with a global-undo broadcast.
C23_AnyMemberCanUndo ==
    [][\A c \in Conns :
        (/\ HandleUndoRequest(c)
         /\ Bound(c)
         /\ currentRoomId[c] \in sockRooms[c]
         /\ Len(HistoryOf(states, currentRoomId[c])) >= 1) =>
            /\ undo(states, currentRoomId[c], now).ret.success
            /\ \A d \in JoinedTo(currentRoomId[c]) :
                  /\ Len(NewMessages(d)) = 1
                  /\ NewMessages(d)[1].type = "global-undo"]_vars

\* C25: a session created by a join to an id that is not registered at that
\* moment (an id whose earlier session was removed after it became empty
\* included) has an empty history: cursor -1, no snapshot, no operation; the
\* joiner is sent neither canvas-state nor drawing-history.
C25_NewRoomStartsEmpty ==
    [][\A c \in Conns :
        (HandleJoinRoom(c) /\ roomNamed(Head(c2s[c])) \notin DOMAIN rooms) =>
            LET roomId == roomNamed(Head(c2s[c]))
            IN  /\ roomId \in DOMAIN rooms'
                /\ RoomView(states', roomId)
                      = [history |-> << >>, historyIndex |-> -1, operations |-> << >>]
                /\ \A i \in 1..Len(NewMessages(c)) :
                      NewMessages(c)[i].type \notin {"canvas-state", "drawing-history"}]_vars

\* ------------------------------------------------------------------------
\* Independence of the sessions (checked under SpecCross)
\* ------------------------------------------------------------------------
\* The sessions that have a member added by a join-room of connection c.
SessionsOf(c) == {roomId \in RoomIds : \E m \in MembersAddedBy(rooms, c) : m[1] = roomId}

\* The server handles a message of c that is not a join-room, or its
\* disconnect.
HandlesFor(c) ==
    \/ HandleDraw(c)
    \/ HandleSaveSnapshot(c)
    \/ HandleClearCanvas(c)
    \/ HandleUndoRequest(c)
    \/ HandleRedoRequest(c)
    \/ HandleCursorMove(c)
    \/ HandleDisconnect(c)

\* C32: a draw, save-snapshot, undo-request, redo-request, clear-canvas,
\* cursor-move or disconnect handled for a connection that is a member of some
\* session leaves every session B it is not a member of as it was (members,
\* snapshot history, cursor, operation log) and sends nothing to the
\* connections joined to B only.
C32_SessionsIndependent ==
    [][\A c \in Conns, B \in RoomIds :
        (HandlesFor(c) /\ SessionsOf(c) /= {} /\ B \notin SessionsOf(c)) =>
            /\ RoomView(states', B) = RoomView(states, B)
            /\ MemberIdsOf(rooms', B) = MemberIdsOf(rooms, B)
            /\ \A d \in Conns : sockRooms[d] = {B} => NewMessages(d) = << >>]_vars

\* ------------------------------------------------------------------------
\* Connections that are not members (checked under SpecFull)
\* ------------------------------------------------------------------------
\* The server handles a draw, save-snapshot, clear-canvas, undo-request or
\* redo-request of c.
HandlesRequestOf(c) ==
    \/ HandleDraw(c)
    \/ HandleSaveSnapshot(c)
    \/ HandleClearCanvas(c)
    \/ HandleUndoRequest(c)
    \/ HandleRedoRequest(c)

\* C35: a draw, save-snapshot, clear-canvas, undo-request or redo-request of
\* a connection that is a member of no session (it sent no join-room, or its
\* join-room was rejected) changes no session's snapshot history, cursor or
\* operation log and sends nothing to any other connection.
C35_NonMemberHasNoEffect ==
    [][\A c \in Conns :
        (HandlesRequestOf(c) /\ MembersAddedBy(rooms, c) = {}) =>
            /\ \A roomId \in RoomIds : RoomView(states', roomId) = RoomView(states, roomId)
            /\ \A d \in Conns \ {c} : s2c'[d] = s2c[d]]_vars

\* ------------------------------------------------------------------------
\* Members and the connections they belong to (checked under SpecSameId)
\* ------------------------------------------------------------------------
\* Connection d is connected and joined to its room, and the user it joined
\* as is a member of that room.
JoinedMember(R, d) ==
    /\ isConnected[d]
    /\ Bound(d)
    /\ currentRoomId[d] \in sockRooms[d]
    /\ currentUser[d].userId \in MemberIdsOf(R, currentRoomId[d])

\* C36: handling the disconnect of a connection removes no member that
\* belongs to another connection that is still connected and joined, also
\* when both connections used the same member id.
C36_DisconnectSparesOthers ==
    [][\A c \in Conns :
        HandleDisconnect(c) =>
            \A d \in Conns \ {c} : JoinedMember(rooms, d) => JoinedMember(rooms', d)]_vars

\* ------------------------------------------------------------------------
\* The originator of an operation (checked under SpecForge)
\* ------------------------------------------------------------------------
\* The user ids under which connection c joined the room: the members of the
\* room that a join-room of c stored.
JoinedAs(c, roomId) ==
    {m[2] : m \in {n \in MembersAddedBy(rooms, c) : n[1] = roomId}}

\* C37: the operation a draw stores in the operation log, and relays as
\* drawing-data, names as its user an id under which the sending connection
\* joined the room, whatever user id the payload of the draw carries.
C37_OperationsNameTheirSender ==
    [][\A c \in Conns :
        (HandleDraw(c) /\ Bound(c)) =>
            LET ops == states'[currentRoomId[c]].operations
            IN  /\ ops[Len(ops)].userId \in JoinedAs(c, currentRoomId[c])
                /\ \A d \in Conns : \A i \in 1..Len(NewMessages(d)) :
                      NewMessages(d)[i].type = "drawing-data"
                        => NewMessages(d)[i].userId \in JoinedAs(c, currentRoomId[c])]_vars

\* ------------------------------------------------------------------------
\* The client's listeners for the broadcasts (checked under SpecClearSync)
\* ------------------------------------------------------------------------
BroadcastTypes == {"canvas-cleared", "global-undo", "global-redo"}

\* C33: a client applies every canvas-cleared, global-undo and global-redo it
\* receives to its canvas, whoever the message names as the acting member,
\* the client itself included: after a canvas-cleared its canvas is blank,
\* after a global-undo / global-redo it shows (or is loading) the snapshot
\* the message carries.
C33_BroadcastsApplied ==
    [][\A c \in Conns :
        (Deliver(c) /\ Head(s2c[c]).type \in BroadcastTypes) =>
            LET m == Head(s2c[c])
            IN  IF m.type = "canvas-cleared"
                THEN canvas'[c] = {}
                ELSE \/ canvas'[c] = drawImage(m.canvasDataURL)
                     \/ m.canvasDataURL \in loading'[c]]_vars

\* ------------------------------------------------------------------------
\* The cursor throttle (checked under SpecCursor)
\* ------------------------------------------------------------------------
\* C34: a client emits at most one cursor-move per 50 ms: any two of its
\* cursor-move messages are at least CURSOR_THROTTLE apart; while the
\* throttle is set its timer is pending, and an emitCursorMove call made
\* then, or made while the client is disconnected, sends nothing.
C34_CursorThrottled ==
    /\ [](\A c \in Conns :
            /\ \A i \in 2..Len(cursorMoveTimes[c]) :
                  cursorMoveTimes[c][i] - cursorMoveTimes[c][i - 1] >= CURSOR_THROTTLE
            /\ cursorThrottle[c] => throttleTimers[c] /= {})
    /\ [][\A c \in Conns :
            (MovesCursor(c) /\ (cursorThrottle[c] \/ ~isConnected[c])) =>
                /\ c2s' = c2s
                /\ ~result'.sent]_vars

\* C34 witness: a client emitted two cursor-move messages and its next call,
\* made before the timer of the second had run, was dropped.
C34_Witness ==
    /\ result = [op |-> "emitCursorMove", client |-> "c1", sent |-> FALSE]
    /\ Len(cursorMoveTimes["c1"]) = 2
    /\ cursorThrottle["c1"]
    /\ isConnected["c1"]
    /\ now < cursorMoveTimes["c1"][2] + CURSOR_THROTTLE

\* ------------------------------------------------------------------------
\* Two undo-requests at the same time (checked under SpecTwoUndos)
\* ------------------------------------------------------------------------
\* The last message the server sent to connection d.
LastSent(d) == s2c[d][Len(s2c[d])]

\* The undo-request of d is handled right after a successful undo that
\* another member asked for: nothing else was handled for the room since.
FollowsUndoOfOther(d) ==
    /\ settled[currentRoomId[d]] = "undo"
    /\ s2c[d] /= << >>
    /\ LastSent(d).type = "global-undo"
    /\ LastSent(d).userId /= currentUser[d].userId

\* C26: two undo-requests of different members of a session, pending at the
\* same time, are applied one after the other in the order the server handles
\* them. With the cursor at k >= 1 the first one is answered with a global-undo
\* carrying history[k-1] and index k-1; the second one, handled next, works on
\* the lowered cursor: with k >= 2 its global-undo carries history[k-2] and
\* index k-2 and the cursor ends at k-2, with k = 1 it gets undo-failed, sent to
\* its sender only, and the cursor stays at 0.
C26_TwoUndosInArrivalOrder ==
    [][\A c \in Conns : \A d \in Conns \ {c} :
        LET roomId == currentRoomId[c]
            k == CursorOf(states, roomId)
            history == HistoryOf(states, roomId)
            bothMembers == /\ Bound(c) /\ Bound(d)
                           /\ currentRoomId[d] = roomId
                           /\ {c, d} \subseteq JoinedTo(roomId)
        IN  /\ (/\ HandleUndoRequest(c)
                /\ Incoming(d, "undo-request")
                /\ bothMembers
                /\ k >= 1) =>
                    /\ SentToRoomAndSender(c,
                          destructiveNotice(c, "global-undo",
                              [canvasDataURL |-> history[(k - 1) + 1].dataURL,
                               index |-> k - 1]))
                    /\ CursorOf(states', roomId) = k - 1
                    /\ Incoming(d, "undo-request")'
                    /\ FollowsUndoOfOther(d)'
            /\ (/\ HandleUndoRequest(c)
                /\ FollowsUndoOfOther(c)
                /\ bothMembers) =>
                    /\ k = LastSent(c).index
                    /\ HistoryOf(states', roomId) = history
                    /\ IF k >= 1
                       THEN /\ SentToRoomAndSender(c,
                                  destructiveNotice(c, "global-undo",
                                      [canvasDataURL |-> history[(k - 1) + 1].dataURL,
                                       index |-> k - 1]))
                            /\ CursorOf(states', roomId) = k - 1
                       ELSE /\ s2c' = [s2c EXCEPT ![c] =
                                         Append(@, [type |-> "undo-failed",
                                                    message |-> "Nothing to undo"])]
                            /\ CursorOf(states', roomId) = 0]_vars

\* Three snapshots, then the undo-requests of both members were pending at the
\* same time: each member holds the two broadcasts, index 1 and then index 0.
C26_Witness ==
    \E c \in Conns :
        /\ Len(s2c[c]) >= 2
        /\ LastSent(c).type = "global-undo"
        /\ LastSent(c).index = 0
        /\ s2c[c][Len(s2c[c]) - 1].type = "global-undo"
        /\ s2c[c][Len(s2c[c]) - 1].index = 1
        /\ s2c[c][Len(s2c[c]) - 1].userId /= LastSent(c).userId
        /\ Len(HistoryOf(states, defaultRoomId)) = 3
        /\ CursorOf(states, defaultRoomId) = 0
        /\ \A d \in Conns : c2s[d] = << >> /\ Len(s2c[d]) >= 2

\* ------------------------------------------------------------------------
\* What a late joiner is sent (checked under SpecUndoSync and SpecMidStroke)
\* ------------------------------------------------------------------------
\* The segments an image shows.
SegmentsIn(dataURL) == drawImage(dataURL)

\* C21: the drawing-history sent to a joiner holds only operations of strokes
\* that no snapshot has captured: no operation whose segment is in the current
\* snapshot, sent with it as canvas-state, and no operation of a stroke that an
\* undo removed (its segment is in a snapshot after the cursor).
C21_ReplayOnlyUncaptured ==
    [][\A c \in Conns :
        HandleJoinRoom(c) =>
            \A i \in 1..Len(NewMessages(c)) :
                NewMessages(c)[i].type = "drawing-history" =>
                    LET operations == NewMessages(c)[i].operations
                        history == HistoryOf(states', currentRoomId'[c])
                    IN  \A n \in 1..Len(operations), h \in 1..Len(history) :
                            operations[n].seg \notin SegmentsIn(history[h].dataURL)]_vars

\* The clients whose connection dropped in the middle of a stroke: the draw
\* messages of the stroke were handled, its save-snapshot was never sent.
MidStrokeLeavers == {c \in Conns : ~isConnected[c] /\ isDrawing[c]}

\* The segments of their incomplete strokes that the server relayed.
Fragment(roomId) ==
    LET ops == OperationsOf(states, roomId)
    IN  {ops[n].seg : n \in {m \in 1..Len(ops) :
                                \E c \in MidStrokeLeavers :
                                    /\ ops[m].userId = clientUserId(c)
                                    /\ ops[m].strokeId = currentStrokeId[c]}}

\* C29: once a member has disconnected in the middle of a stroke, the
\* segments of that stroke are in no snapshot that a peer pushes to the session
\* afterwards.
C29_FragmentNotPersisted ==
    [][\A d \in Conns :
        (HandleSaveSnapshot(d) /\ Bound(d)) =>
            Fragment(currentRoomId[d]) \cap SegmentsIn(Head(c2s[d]).canvasData) = {}]_vars

\* ------------------------------------------------------------------------
\* Convergence of the clients (checked under SpecUndoSync and SpecClearSync)
\* ------------------------------------------------------------------------
\* The connections that have joined the room (socket.join(roomId)).
Members(roomId) == {c \in Conns : roomId \in sockRooms[c]}

\* Nothing is in flight: every message sent has been handled by the server,
\* every message the server sent has been processed by its client, and no
\* image is still loading.
Quiescent ==
    \A c \in Conns : c2s[c] = <<>> /\ s2c[c] = <<>> /\ loading[c] = {}

\* What the server's snapshot at the cursor shows.
ServerSurface(roomId) == drawImage(getCurrentSnapshot(states, roomId, now).ret)

\* C9: once a successful undo-request or redo-request has been handled and
\* its global-undo / global-redo broadcast has been processed by every member
\* (nothing is in flight and nothing else has been handled for the room
\* since), the canvas of every member, the requester included, equals the
\* server's snapshot at the current cursor.
C9_UndoRedoConverges ==
    \A roomId \in SyncRooms :
        (settled[roomId] \in {"undo", "redo"} /\ Quiescent) =>
            \A c \in Members(roomId) : canvas[c] = ServerSurface(roomId)

\* C10: a clear wins over in-flight drawing: once a clear-canvas request has
\* been handled and every message in flight then has been delivered, the
\* segments that members sent before they learnt of the clear included, every
\* member shows the same canvas, the empty one.
C10_ClearWins ==
    \A roomId \in SyncRooms :
        (settled[roomId] = "clear" /\ Quiescent) =>
            \A c \in Members(roomId) : canvas[c] = {}

=============================================================================
